---- MODULE Spec2Model ----
(***************************************************************************)
(* The multi-file merge engine of SeqArray (src/src/FileMerge.cpp).        *)
(*                                                                         *)
(* One merge call walks the global records i = 1..TotalNum.  Every source  *)
(* file j owns a pointer pIdx[j] into its varidx array; the file           *)
(* contributes to record i when the entry under the pointer equals i.      *)
(* One action models one iteration of the outer for-loop of a merge        *)
(* function.  What an iteration reads from a source file (an allele        *)
(* string, genotype codes, an info value) is an input of the action.       *)
(*                                                                         *)
(* Strings are sequences of one-character strings, so that parsing and     *)
(* joining an allele list work on the characters, as the code does.        *)
(***************************************************************************)
EXTENDS Integers, Sequences, FiniteSets, TLC

VARIABLES
    kind,         \* the entry point that is running
    varidx,       \* per file: local record position -> global record number
    pIdx,         \* per file: offset of the pointer pIdx[j] into varidx[j]
    pI,           \* per file: index of the next local record (cell) to read
    i,            \* the loop variable: the global record being processed
    status,       \* "run", "done" (loop finished), "error" (exception thrown)
                  \* or "crash" (the process was killed)
    pc,           \* SEQ_MergeGeno: "top" of the loop body, or at the "files" loop
    Verbose,      \* SEQ_MergeGeno: param$verbose, progress is printed
    hit,          \* per file: did it contribute in the latest iteration
    val,          \* per file: the allele string read in the latest iteration
    exp_var,      \* SEQ_MergeAllele: the strings appended to the export node
    allele_list,  \* SEQ_MergeGeno: the unified allele string of the record
    geno_raw,     \* SEQ_MergeGeno: per file, the codes ReadGenoData returned
    geno_buffer,  \* SEQ_MergeGeno: the genotype buffer after the remap
    geno_idx,     \* SEQ_MergeGeno: genotype/@data, one plane count per record
    geno_var,     \* SEQ_MergeGeno: genotype/data, one entry per appended plane
    warned,       \* SEQ_MergeGeno: warnings raised by the latest iteration
    has_idx,      \* SEQ_MergeInfo: does the variable have an '@' companion
    RD,           \* SEQ_MergeInfo: the value read in the latest iteration
    info_var,     \* SEQ_MergeInfo: the elements appended to the value node
    info_idx,     \* SEQ_MergeInfo: the lengths appended to the companion
    uin,          \* per-record union: the allele strings of files A, B, C
    ures,         \* per-record union: the strings the merges wrote
    pk,           \* plane codec: the code in hand, its planes, the decoded code
    phase_var,    \* SEQ_MergePhase: phase/data, one flat record per append
    phase_buf,    \* SEQ_MergePhase: the phase buffer
    phase_raw,    \* SEQ_MergePhase: per file, the values ReadData returned
    ba,           \* SEQ_BApply_Variant: the state of one call
    gd            \* SEQ_GetData: the state of one retrieval

vars == <<kind, varidx, pIdx, pI, i, status, pc, Verbose, hit, val, exp_var, allele_list,
          geno_raw, geno_buffer, geno_idx, geno_var, warned,
          has_idx, RD, info_var, info_idx, uin, ures, pk,
          phase_var, phase_buf, phase_raw, ba, gd>>

(***************************************************************************)
(* Bounds of the model.                                                    *)
(***************************************************************************)
FileCnt == 2        \* number of source files of one merge call
TotalNum == 2       \* number of global records
MaxAllele == 2      \* longest allele list of one source record
MaxUnified == 5     \* longest unified allele list of the export file
MaxRun == 2         \* longest run of values of one info record
MaxNumAllele == 17  \* largest allele count given to the plane codec
MaxVariant == 4     \* length of the record axis of a file
MaxBsize == 3       \* largest chunk size given to a block apply
MaxResultLen == 1   \* longest value a transform returns

Files == 1..FileCnt

(***************************************************************************)
(* Program constants.                                                      *)
(***************************************************************************)
\* INT_MIN, the missing value of an int
NA_INTEGER == -2147483647 - 1
ZERO == 0
ONE == 1
GenoNumBits == 2
GenoBitMask == 3

(***************************************************************************)
(* Allele strings.                                                         *)
(***************************************************************************)
Range(s) == {s[k] : k \in 1..Len(s)}

SeqsUpTo(S, n) == UNION {[1..m -> S] : m \in 0..n}

\* the sequences f over 1..n with f[j] \in D[j]: one input per file
RECURSIVE Product(_, _)
Product(n, D) ==
    IF n = 0 THEN {<<>>}
    ELSE {Append(f, x) : f \in Product(n - 1, D), x \in D[n]}

Letters == <<"A", "C", "G", "T">>

\* the k-th allele name: A, C, G, T, AA, AC, AG, AT, CA, ...
AlleleName(k) ==
    IF k <= 4 THEN <<Letters[k]>>
    ELSE <<Letters[((k - 5) \div 4) + 1], Letters[((k - 5) % 4) + 1]>>

\* GetAlleles: the ordered components of a comma-separated allele list;
\* the empty string has no component
RECURSIVE ParseAlleles(_, _, _)
ParseAlleles(str, cur, acc) ==
    IF str = <<>> THEN Append(acc, cur)
    ELSE IF Head(str) = ","
         THEN ParseAlleles(Tail(str), <<>>, Append(acc, cur))
         ELSE ParseAlleles(Tail(str), Append(cur, Head(str)), acc)

GetAlleles(str) == IF str = <<>> THEN <<>> ELSE ParseAlleles(str, <<>>, <<>>)

\* GetNumOfAllele: the number of components of an allele list
GetNumOfAllele(str) == Len(GetAlleles(str))

\* GetIndexOfAllele: the 0-based index of the component equal to `allele',
\* -1 when there is none
GetIndexOfAllele(allele, str) ==
    LET ss == GetAlleles(str)
        at == {k \in 1..Len(ss) : ss[k] = allele}
    IN  IF at = {} THEN -1
        ELSE (CHOOSE k \in at : \A m \in at : k <= m) - 1

\* a faulty variant of AddAlleles: the test of line 90 is gone, every
\* component is pushed
AddAlleles_NoDedup(vec, vv) == vec \o vv

\* a faulty variant of AddAlleles: only the first component of vv is looked at
AddAlleles_FirstOnly(vec, vv) ==
    IF vv = <<>> \/ Head(vv) \in Range(vec) THEN vec
    ELSE Append(vec, Head(vv))

\* a faulty variant of AddAlleles: a new component is put in front
RECURSIVE AddAlleles_Front(_, _)
AddAlleles_Front(vec, vv) ==
    IF vv = <<>> THEN vec
    ELSE AddAlleles_Front(IF Head(vv) \in Range(vec) THEN vec
                          ELSE <<Head(vv)>> \o vec,
                          Tail(vv))

\* FileMerge.cpp 87-92: push the components of vv that vec does not hold yet
RECURSIVE AddAlleles(_, _)
AddAlleles(vec, vv) ==
    IF vv = <<>> THEN vec
    ELSE AddAlleles(IF Head(vv) \in Range(vec) THEN vec
                    ELSE Append(vec, Head(vv)),
                    Tail(vv))

\* FileMerge.cpp 96-101: join vec with commas
RECURSIVE JoinAlleles(_)
JoinAlleles(vec) ==
    IF vec = <<>> THEN <<>>
    ELSE IF Len(vec) = 1 THEN vec[1]
    ELSE vec[1] \o <<",">> \o JoinAlleles(Tail(vec))

\* FileMerge.cpp 77-94: vec after the strings `vals' of the contributing
\* files, in file order, have been parsed and added
RECURSIVE MergeVec(_, _)
MergeVec(vec, vals) ==
    IF vals = <<>> THEN vec
    ELSE MergeVec(AddAlleles(vec, GetAlleles(Head(vals))), Tail(vals))

\* FileMerge.cpp 77-102: the string one iteration of SEQ_MergeAllele appends
MergedAllele(vals) == JoinAlleles(MergeVec(<<>>, vals))

\* the allele strings a source record may hold
AlleleLists == SeqsUpTo({AlleleName(1), AlleleName(2)}, MaxAllele)
AlleleStrings == {JoinAlleles(l) : l \in AlleleLists}

(***************************************************************************)
(* The merge index and the cursors (MERGE_VAR_DEF).                        *)
(***************************************************************************)
IsNondecreasing(s) == \A k \in 1..(Len(s) - 1) : s[k] <= s[k + 1]

VarIdxArrays == {s \in SeqsUpTo(1..TotalNum, TotalNum) : IsNondecreasing(s)}

\* the pointer of file j stands on an entry of its array
InArray(j) == pIdx[j] < Len(varidx[j])

\* `*pIdx[j] == i' when the pointer stands inside the array
EntryIs(j) == InArray(j) /\ varidx[j][pIdx[j] + 1] = i

\* `*pIdx[j] == i': past the end of the array the value read is whatever
\* follows the array in memory; oob[j] says whether it compares equal to i
Match(j, oob) == IF InArray(j) THEN varidx[j][pIdx[j] + 1] = i ELSE oob[j]

OobChoices == {f \in [Files -> BOOLEAN] : \A j \in Files : f[j] => ~InArray(j)}

\* the strings of the files flagged in m, in file order
RECURSIVE Picked(_, _, _)
Picked(j, m, v) ==
    IF j > FileCnt THEN <<>>
    ELSE (IF m[j] THEN <<v[j]>> ELSE <<>>) \o Picked(j + 1, m, v)

NoFile == [j \in Files |-> FALSE]
NoString == [j \in Files |-> <<>>]

\* a faulty variant of Advance: no cursor moves
Advance_Stuck(c, m) == c

\* ++ pI[j] for the files flagged in m
Advance(c, m) == [j \in Files |-> IF m[j] THEN c[j] + 1 ELSE c[j]]

\* the files before the first one whose test matched past the end of its
\* array: reading that file's record fails, the ones before were merged
FirstBad(m) ==
    LET bad == {j \in Files : m[j] /\ ~InArray(j)}
    IN  IF bad = {} THEN FileCnt + 1
        ELSE CHOOSE j \in bad : \A k \in bad : j <= k

NextI == IF i = TotalNum THEN "done" ELSE "run"

(***************************************************************************)
(* The genotype buffer and the plane encoding (SEQ_MergeGeno).             *)
(***************************************************************************)
ploidy == 1                           \* INTEGER(num)[2]
Num_Sample == [j \in Files |-> 1]     \* selected samples of each source file

RECURSIVE SumSamples(_)
SumSamples(j) == IF j = 0 THEN 0 ELSE Num_Sample[j] + SumSamples(j - 1)

nsamp == SumSamples(FileCnt)          \* INTEGER(num)[1]
geno_cnt == nsamp * ploidy
SlotSize(j) == Num_Sample[j] * ploidy

\* the codes a source genotype cell may hold
GenoCodes == {NA_INTEGER} \cup (0..MaxAllele)

\* the allele strings of a source record that has genotypes: a list of one
\* or more distinct alleles
GenoAlleleStrings ==
    {JoinAlleles(l) : l \in {x \in AlleleLists :
        Len(x) >= 1 /\ \A a, b \in 1..Len(x) : x[a] = x[b] => a = b}}

\* the unified allele strings the export file may hold for a record
UnifiedStrings ==
    {JoinAlleles([k \in 1..n |-> AlleleName(k)]) : n \in 0..MaxUnified}

\* FileMerge.cpp 175-183: the translation table of a source allele string
AlleleMap(s, list) ==
    LET ss == GetAlleles(s)
    IN  [k \in 1..Len(ss) |-> GetIndexOfAllele(ss[k], list)]

\* AlleleMap and GetNumOfAllele over the strings the model draws, evaluated
\* once
AlleleMapOf ==
    [s \in GenoAlleleStrings \cup {<<>>} |->
        [list \in UnifiedStrings |-> AlleleMap(s, list)]]
NumOfAlleleOf == [list \in UnifiedStrings |-> GetNumOfAllele(list)]

\* a faulty variant of LookupMiss: the test of line 180 is gone
LookupMiss_Never(map) == FALSE

\* FileMerge.cpp 180-181: some local allele is not in the unified list
LookupMiss(map) == \E k \in 1..Len(map) : map[k] < 0

\* FileMerge.cpp 190: the code indexes the file's own allele list
InRange(c, nAllele) == (0 <= c) /\ (c < nAllele)

\* a faulty variant of RemapCode: the local code is kept
RemapCode_Identity(c, map) == c

\* FileMerge.cpp 190-193: one cell of a contributing file after the remap
RemapCode(c, map) == IF InRange(c, Len(map)) THEN map[c + 1] ELSE c

\* FileMerge.cpp 192-193: the cells of a slot that raise a warning
WarnCells(raw, nAllele) ==
    {k \in 1..Len(raw) : ~InRange(raw[k], nAllele) /\ raw[k] # NA_INTEGER}

\* FileMerge.cpp 184-197: the slot of file j in the genotype buffer
GenoSlot(j, contributes, raw, map) ==
    IF contributes
    THEN [k \in 1..SlotSize(j) |-> RemapCode(raw[k], map)]
    ELSE [k \in 1..SlotSize(j) |-> NA_INTEGER]

\* a faulty variant of NumBitsFrom: the loop goes on while >= holds
RECURSIVE NumBitsFrom_Ge(_, _)
NumBitsFrom_Ge(num_allele, num_bits) ==
    IF (num_allele + 1) >= 2 ^ num_bits
    THEN NumBitsFrom_Ge(num_allele, num_bits + GenoNumBits)
    ELSE num_bits

\* a faulty variant of NumBitsFrom: no room is left for the missing value
RECURSIVE NumBitsFrom_NoMissing(_, _)
NumBitsFrom_NoMissing(num_allele, num_bits) ==
    IF num_allele > 2 ^ num_bits
    THEN NumBitsFrom_NoMissing(num_allele, num_bits + GenoNumBits)
    ELSE num_bits

\* FileMerge.cpp 205-207: the number of bits of a code of num_allele alleles
RECURSIVE NumBitsFrom(_, _)
NumBitsFrom(num_allele, num_bits) ==
    IF (num_allele + 1) > 2 ^ num_bits
    THEN NumBitsFrom(num_allele, num_bits + GenoNumBits)
    ELSE num_bits

NumBits(num_allele) == NumBitsFrom(num_allele, GenoNumBits)

\* FileMerge.cpp 208: the plane count appended to genotype/@data
NumPlanes(num_allele) == NumBits(num_allele) \div GenoNumBits

\* FileMerge.cpp 218-219: the 2 bits of code c in the plane starting at `bits'
PlaneBits(c, bits) ==
    IF c = NA_INTEGER THEN GenoBitMask
    ELSE (c \div (2 ^ bits)) % (GenoBitMask + 1)

\* a faulty variant of GenoPlanes: the planes are appended high bits first
GenoPlanes_HighFirst(buf, num_allele) ==
    [b \in 1..NumPlanes(num_allele) |->
        [k \in 1..Len(buf) |->
            PlaneBits(buf[k], (NumPlanes(num_allele) - b) * GenoNumBits)]]

\* FileMerge.cpp 212-223: the planes appended for a buffer, low bits first
GenoPlanes(buf, num_allele) ==
    [b \in 1..NumPlanes(num_allele) |->
        [k \in 1..Len(buf) |-> PlaneBits(buf[k], (b - 1) * GenoNumBits)]]

(***************************************************************************)
(* The phase buffer (SEQ_MergePhase).                                      *)
(***************************************************************************)
phase_ploidy == 2                     \* INTEGER(num)[2] of a phase merge
pcnt == nsamp * (phase_ploidy - 1)
PhaseSlotSize(j) == Num_Sample[j] * (phase_ploidy - 1)

\* the values a source phase cell may hold
PhaseValues == {0, 1}

\* FileMerge.cpp 284, 286: the slot of file j in the phase buffer
PhaseSlot(j, contributes, raw) ==
    IF contributes
    THEN [k \in 1..PhaseSlotSize(j) |-> raw[k]]
    ELSE [k \in 1..PhaseSlotSize(j) |-> 0]

(***************************************************************************)
(* Initial states.                                                         *)
(***************************************************************************)
OtherIdle ==
    /\ uin = <<>>
    /\ ures = <<>>
    /\ pk = <<>>

PhaseIdle ==
    /\ phase_var = <<>>
    /\ phase_buf = <<>>
    /\ phase_raw = <<>>

ApplyIdle == ba = <<>>

GetIdle == gd = <<>>

InitMerge(k) ==
    /\ kind = k
    /\ varidx \in [Files -> VarIdxArrays]
    /\ pIdx = [j \in Files |-> 0]
    /\ pI = [j \in Files |-> 0]
    /\ i = 1
    /\ status = "run"
    /\ pc = "top"
    /\ Verbose \in (IF k \in {"geno", "phase"} THEN BOOLEAN ELSE {FALSE})
    /\ hit = NoFile
    /\ val = NoString
    /\ exp_var = <<>>
    /\ allele_list = <<>>
    /\ geno_raw = [j \in Files |-> <<>>]
    /\ geno_buffer = (IF k = "geno" THEN [c \in 1..geno_cnt |-> 0] ELSE <<>>)
    /\ geno_idx = <<>>
    /\ geno_var = <<>>
    /\ warned = 0
    /\ has_idx \in (IF k = "info" THEN BOOLEAN ELSE {FALSE})
    /\ RD = <<>>
    /\ info_var = <<>>
    /\ info_idx = <<>>
    /\ phase_var = <<>>
    /\ phase_buf = (IF k = "phase" THEN [c \in 1..pcnt |-> 0] ELSE <<>>)
    /\ phase_raw = (IF k = "phase" THEN [j \in Files |-> <<>>] ELSE <<>>)
    /\ OtherIdle
    /\ ApplyIdle
    /\ GetIdle

(***************************************************************************)
(* SEQ_MergeAllele: one iteration of the for-loop over the global records. *)
(***************************************************************************)
MergeAlleleStep ==
    /\ kind = "allele"
    /\ status = "run"
    /\ \E oob \in OobChoices :
       LET m == [j \in Files |-> Match(j, oob)]
           bad == FirstBad(m)
           done == [j \in Files |-> m[j] /\ j < bad]
       IN  \E v \in Product(FileCnt, [j \in Files |->
                         IF done[j] THEN AlleleStrings ELSE {<<>>}]) :
              /\ hit' = done
              /\ val' = v
              /\ pIdx' = [j \in Files |->
                            IF m[j] /\ j <= bad THEN pIdx[j] + 1 ELSE pIdx[j]]
              /\ pI' = Advance(pI, done)
              /\ IF bad <= FileCnt
                 THEN \* GDS_Array_ReadData past the last record of the file
                      /\ status' = "error"
                      /\ UNCHANGED <<i, exp_var>>
                 ELSE /\ exp_var' = Append(exp_var, MergedAllele(Picked(1, done, v)))
                      /\ i' = i + 1
                      /\ status' = NextI
    /\ UNCHANGED <<kind, Verbose, varidx, pc, allele_list, geno_raw, geno_buffer,
                   geno_idx, geno_var, warned, has_idx, RD, info_var, info_idx,
                   uin, ures, pk, phase_var, phase_buf, phase_raw, ba, gd>>

(***************************************************************************)
(* SEQ_MergeGeno: one iteration of the for-loop over the global records.   *)
(***************************************************************************)
\* the first file at which the iteration throws: its test matched past the
\* end of varidx (the read of its record fails) or one of its alleles is
\* not in the unified list; FileCnt + 1 when no file throws
FirstThrow(m, maps) ==
    LET bad == {j \in Files : m[j] /\ (~InArray(j) \/ LookupMiss(maps[j]))}
    IN  IF bad = {} THEN FileCnt + 1
        ELSE CHOOSE j \in bad : \A k \in bad : j <= k

\* FileMerge.cpp 153: the progress step
div == TotalNum \div 25

\* FileMerge.cpp 225-226: i % div is undefined when div is 0; the division
\* traps and kills the process, or it does not and the loop goes on
ProgressTraps == IF Verbose /\ div = 0 THEN BOOLEAN ELSE {FALSE}

\* the slots of the files before `upto', in file order
RECURSIVE GenoBuffer(_, _, _, _, _)
GenoBuffer(j, upto, m, raw, maps) ==
    IF j >= upto THEN <<>>
    ELSE GenoSlot(j, m[j], raw[j], maps[j])
         \o GenoBuffer(j + 1, upto, m, raw, maps)

\* the warnings raised for the files before `upto'
RECURSIVE CountWarnings(_, _, _, _, _)
CountWarnings(j, upto, m, raw, maps) ==
    IF j >= upto THEN 0
    ELSE (IF m[j] THEN Cardinality(WarnCells(raw[j], Len(maps[j]))) ELSE 0)
         + CountWarnings(j + 1, upto, m, raw, maps)

\* FileMerge.cpp 159-161: the unified allele string of record i is read
\* from the export file
GenoReadAllele ==
    /\ kind = "geno"
    /\ status = "run"
    /\ pc = "top"
    /\ \E list \in UnifiedStrings : allele_list' = list
    /\ pc' = "files"
    /\ hit' = NoFile
    /\ val' = NoString
    /\ geno_raw' = [j \in Files |-> <<>>]
    /\ warned' = 0
    /\ UNCHANGED <<kind, Verbose, varidx, pIdx, pI, i, status, exp_var, geno_buffer,
                   geno_idx, geno_var, has_idx, RD, info_var, info_idx,
                   uin, ures, pk, phase_var, phase_buf, phase_raw, ba, gd>>

\* FileMerge.cpp 163-227: the loop over the files, then the plane count and
\* the planes of record i are appended
MergeGenoStep ==
    /\ kind = "geno"
    /\ status = "run"
    /\ pc = "files"
    /\ \E oob \in OobChoices :
       LET m == [j \in Files |-> Match(j, oob)]
           oobBad == FirstBad(m)
           num_allele == NumOfAlleleOf[allele_list]
       IN  \E v \in Product(FileCnt, [j \in Files |->
                         IF m[j] /\ j < oobBad THEN GenoAlleleStrings
                         ELSE {<<>>}]) :
           LET maps == [j \in Files |-> AlleleMapOf[v[j]][allele_list]]
               bad == FirstThrow(m, maps)
               done == [j \in Files |-> m[j] /\ j < bad]
               \* line 171 was reached by the file that throws at line 181
               readAllele == [j \in Files |->
                                m[j] /\ (j < bad \/ (j = bad /\ InArray(j)))]
           IN  /\ \A j \in Files : ~readAllele[j] => v[j] = <<>>
               /\ \E raw \in Product(FileCnt, [j \in Files |->
                             IF done[j] THEN [1..SlotSize(j) -> GenoCodes]
                             ELSE {<<>>}]) :
                  LET filled == GenoBuffer(1, bad, m, raw, maps)
                      buf == filled \o SubSeq(geno_buffer, Len(filled) + 1,
                                              Len(geno_buffer))
                  IN  /\ hit' = done
                      /\ val' = v
                      /\ geno_raw' = raw
                      /\ pIdx' = [j \in Files |->
                                    IF m[j] /\ j <= bad THEN pIdx[j] + 1
                                    ELSE pIdx[j]]
                      /\ pI' = Advance(pI, readAllele)
                      /\ geno_buffer' = buf
                      /\ warned' = CountWarnings(1, bad, m, raw, maps)
                      /\ IF bad <= FileCnt
                         THEN /\ status' = "error"
                              /\ UNCHANGED <<i, pc, geno_idx, geno_var>>
                         ELSE /\ geno_idx' = Append(geno_idx, NumPlanes(num_allele))
                              /\ geno_var' = geno_var \o GenoPlanes(buf, num_allele)
                              /\ pc' = "top"
                              /\ \E trap \in ProgressTraps :
                                    IF trap
                                    THEN status' = "crash" /\ i' = i
                                    ELSE status' = NextI /\ i' = i + 1
    /\ UNCHANGED <<kind, Verbose, varidx, allele_list, exp_var, has_idx, RD, info_var,
                   info_idx, uin, ures, pk, phase_var, phase_buf, phase_raw,
                   ba, gd>>

(***************************************************************************)
(* SEQ_MergePhase: one iteration of the for-loop over the global records.  *)
(***************************************************************************)
\* a faulty variant of PhaseBuffer: the slots are laid out last file first
RECURSIVE PhaseBuffer_Reversed(_, _, _, _)
PhaseBuffer_Reversed(j, upto, m, raw) ==
    IF j >= upto THEN <<>>
    ELSE PhaseBuffer_Reversed(j + 1, upto, m, raw)
         \o PhaseSlot(j, m[j], raw[j])

\* the slots of the files before `upto', in file order
RECURSIVE PhaseBuffer(_, _, _, _)
PhaseBuffer(j, upto, m, raw) ==
    IF j >= upto THEN <<>>
    ELSE PhaseSlot(j, m[j], raw[j]) \o PhaseBuffer(j + 1, upto, m, raw)

\* FileMerge.cpp 269-295; the progress test of lines 293-294 is the one of
\* SEQ_MergeGeno, with div of line 264
MergePhaseStep ==
    /\ kind = "phase"
    /\ status = "run"
    /\ \E oob \in OobChoices :
       LET m == [j \in Files |-> Match(j, oob)]
           bad == FirstBad(m)
           done == [j \in Files |-> m[j] /\ j < bad]
       IN  \E raw \in Product(FileCnt, [j \in Files |->
                         IF done[j] THEN [1..PhaseSlotSize(j) -> PhaseValues]
                         ELSE {<<>>}]) :
              LET filled == PhaseBuffer(1, bad, m, raw)
                  buf == filled \o SubSeq(phase_buf, Len(filled) + 1,
                                          Len(phase_buf))
              IN  /\ hit' = done
                  /\ phase_raw' = raw
                  /\ pIdx' = [j \in Files |->
                                IF m[j] /\ j <= bad THEN pIdx[j] + 1
                                ELSE pIdx[j]]
                  /\ pI' = Advance(pI, done)
                  /\ phase_buf' = buf
                  /\ IF bad <= FileCnt
                     THEN \* FILE.ReadData past the last record of the file
                          /\ status' = "error"
                          /\ UNCHANGED <<i, phase_var>>
                     ELSE /\ phase_var' = Append(phase_var, buf)
                          /\ \E trap \in ProgressTraps :
                                IF trap
                                THEN status' = "crash" /\ i' = i
                                ELSE status' = NextI /\ i' = i + 1
    /\ UNCHANGED <<kind, Verbose, varidx, pc, val, exp_var, allele_list,
                   geno_raw, geno_buffer, geno_idx, geno_var, warned, has_idx,
                   RD, info_var, info_idx, uin, ures, pk, ba, gd>>

(***************************************************************************)
(* SEQ_MergeInfo: one iteration of the for-loop over the global records.   *)
(***************************************************************************)
\* the k-th value of local record p of file j
Cell(j, p, k) == <<j, p, k>>

\* ScalarInteger(NA_INTEGER): a missing value that no file supplied
MissingScalar == <<0, 0, NA_INTEGER>>

\* FILE.ReadData(RD): the n values of the record under the cursor of file j
ReadData(j, n) == [k \in 1..n |-> Cell(j, pI[j], k)]

\* the run lengths a record may have: any with a companion, 1 without
RunLengths == IF has_idx THEN 0..MaxRun ELSE {1}

\* a faulty variant of AbsentIdx: nothing is appended for an absent record
AbsentIdx_Omit(idx) == idx

\* FileMerge.cpp 361-362: an absent record of a variable with a companion
AbsentIdx(idx) == Append(idx, ZERO)

\* FileMerge.cpp 363-364: an absent record of a variable without one
AbsentVar(var) == Append(var, MissingScalar)

\* a faulty variant of FirstMatch: the last matching file wins
FirstMatch_Last(m) ==
    LET S == {j \in Files : m[j]}
    IN  IF S = {} THEN FileCnt + 1
        ELSE CHOOSE j \in S : \A k \in S : j >= k

\* FileMerge.cpp 340-343: the first file, in file order, whose test matches
FirstMatch(m) ==
    LET S == {j \in Files : m[j]}
    IN  IF S = {} THEN FileCnt + 1
        ELSE CHOOSE j \in S : \A k \in S : j <= k

MergeInfoStep ==
    /\ kind = "info"
    /\ status = "run"
    /\ \E oob \in OobChoices :
       \E n \in RunLengths :
          LET m == [j \in Files |-> Match(j, oob)]
              first == FirstMatch(m)
          IN  IF first > FileCnt
              THEN \* has == false
                   /\ IF has_idx
                      THEN /\ info_idx' = AbsentIdx(info_idx)
                           /\ UNCHANGED info_var
                      ELSE /\ info_var' = AbsentVar(info_var)
                           /\ UNCHANGED info_idx
                   /\ hit' = NoFile
                   /\ RD' = <<>>
                   /\ i' = i + 1
                   /\ status' = NextI
                   /\ UNCHANGED <<pIdx, pI>>
              ELSE IF ~InArray(first)
              THEN \* FILE.ReadData past the last record of the file
                   /\ pIdx' = [pIdx EXCEPT ![first] = @ + 1]
                   /\ hit' = NoFile
                   /\ RD' = <<>>
                   /\ status' = "error"
                   /\ UNCHANGED <<pI, i, info_var, info_idx>>
              ELSE /\ pIdx' = [pIdx EXCEPT ![first] = @ + 1]
                   /\ pI' = [pI EXCEPT ![first] = @ + 1]
                   /\ RD' = ReadData(first, n)
                   /\ info_var' = info_var \o ReadData(first, n)
                   /\ info_idx' = (IF has_idx THEN Append(info_idx, n)
                                   ELSE info_idx)
                   /\ hit' = [j \in Files |-> j = first]
                   /\ i' = i + 1
                   /\ status' = NextI
    /\ UNCHANGED <<kind, Verbose, varidx, pc, val, exp_var, allele_list, geno_raw,
                   geno_buffer, geno_idx, geno_var, warned, has_idx,
                   uin, ures, pk, phase_var, phase_buf, phase_raw, ba, gd>>

(***************************************************************************)
(* SEQ_BApply_Variant (src/src/GetData.cpp): one call.                     *)
(*                                                                         *)
(* ba.stack is the selection stack of the file session, the active         *)
(* selection last; ba.stack[1] is the selection of the caller.  Offsets    *)
(* into a mask (pSel, varStart, varEnd) count from 0 as the pointers of    *)
(* the code do, positions of records count from 1.                         *)
(***************************************************************************)
\* the selected records of a mask, 1-based
TruePositions(mask) == {q \in 1..Len(mask) : mask[q]}

MinOf(S) == CHOOSE x \in S : \A y \in S : x <= y
MaxOf(S) == CHOOSE x \in S : \A y \in S : x >= y

\* a selection of the session: the record mask, its count and bounds, and
\* the sample mask
SelectionOf(mask, samp) ==
    [pVariant |-> mask,
     pSample |-> samp,
     varTrueNum |-> Cardinality(TruePositions(mask)),
     varStart |-> IF TruePositions(mask) = {} THEN 0
                  ELSE MinOf(TruePositions(mask)) - 1,
     varEnd |-> IF TruePositions(mask) = {} THEN 0
                ELSE MaxOf(TruePositions(mask))]

\* the record masks and the sample masks of a caller
VariantMasks == [1..MaxVariant -> BOOLEAN]
SampleMasks == {<<TRUE, FALSE>>}

\* Txt_Apply_VarIdx: "none", "relative", "absolute"
VarIdxModes == 0..2

\* DatType 0 (no output), 1 (list), 2 with a text or a binary connection,
\* 3 (gdsn.class)
Sinks == {"none", "list", "text", "binary", "gds"}

\* the kinds of value a transform returns: RAWSXP, STRSXP, INTSXP, and
\* NILSXP or LISTSXP (the two for which Rf_isList holds)
ResultTypes == {"raw", "character", "integer", "pairlist"}
Rf_isList(t) == t = "pairlist"
Rf_isString(t) == t = "character"

\* File.Push_Selection(true, false), lines 1125-1127: a new top whose
\* sample mask is the one of the old top and whose record mask is cleared
Push_Selection(stack) ==
    Append(stack,
           [pVariant |-> [q \in 1..Len(stack[Len(stack)].pVariant) |-> FALSE],
            pSample |-> stack[Len(stack)].pSample,
            varTrueNum |-> 0,
            varStart |-> 0,
            varEnd |-> 0])

\* File.Pop_Selection(): the top is removed
Pop_Selection(stack) == SubSeq(stack, 1, Len(stack) - 1)

\* Sel.ClearSelectVariant(): no record of the sub-selection is selected
ClearSelectVariant(sel) ==
    [sel EXCEPT !.pVariant = [q \in 1..Len(sel.pVariant) |-> FALSE],
                !.varTrueNum = 0]

\* VEC_BOOL_FIND_TRUE(pSel, pEnd), and the loops of lines 1144-1145 and
\* 1161-1162: the first offset at or after pSel whose entry is TRUE, the
\* length of the mask when there is none
FindTrue(mask, pSel) ==
    IF \E q \in pSel..(Len(mask) - 1) : mask[q + 1]
    THEN MinOf({q \in pSel..(Len(mask) - 1) : mask[q + 1]})
    ELSE Len(mask)

\* lines 1159-1169: up to bs further selected records of the caller are
\* set in the sub-selection
RECURSIVE NarrowLoop(_, _, _, _)
NarrowLoop(mask, pNewSel, pSel, bs) ==
    IF bs <= 0 THEN [pVariant |-> pNewSel, pSel |-> pSel, bs |-> bs]
    ELSE LET q == FindTrue(mask, pSel)
         IN  IF q < Len(mask)
             THEN NarrowLoop(mask, [pNewSel EXCEPT ![q + 1] = TRUE],
                             q + 1, bs - 1)
             ELSE [pVariant |-> pNewSel, pSel |-> q, bs |-> bs]

\* a faulty variant of ChunkIndex: the index counts from 0
ChunkIndex_ZeroBased(VarIdx, idx, bsize, mask, pSel) ==
    IF VarIdx = 1 THEN [index |-> idx * bsize, pSel |-> pSel]
    ELSE IF VarIdx = 2
         THEN [index |-> FindTrue(mask, pSel),
               pSel |-> FindTrue(mask, pSel)]
         ELSE [index |-> 0, pSel |-> pSel]

\* lines 1139-1147: the index given to the transform, and pSel afterwards;
\* 0 stands for no index
ChunkIndex(VarIdx, idx, bsize, mask, pSel) ==
    IF VarIdx = 1 THEN [index |-> idx * bsize + 1, pSel |-> pSel]
    ELSE IF VarIdx = 2
         THEN [index |-> FindTrue(mask, pSel) + 1,
               pSel |-> FindTrue(mask, pSel)]
         ELSE [index |-> 0, pSel |-> pSel]

\* lines 1150-1172: the sub-selection of a chunk, and pSel afterwards
SubSelection(sel, mask, pSel, bsize) ==
    LET cleared == ClearSelectVariant(sel)
        first == FindTrue(mask, pSel)
        r == NarrowLoop(mask, cleared.pVariant, first, bsize)
    IN  [sel |-> [cleared EXCEPT !.pVariant = r.pVariant,
                                 !.varStart = first,
                                 !.varTrueNum = bsize - r.bs,
                                 !.varEnd = r.pSel],
         pSel |-> r.pSel]

\* a faulty variant of NoSelected: the test of line 1052 is gone
NoSelected_Never(nVariant) == FALSE

\* lines 1052-1053: there is no selected variant
NoSelected(nVariant) == nVariant <= 0

\* a faulty variant of NumBlockOf: a short last chunk is not counted
NumBlockOf_Floor(nVariant, bsize) == nVariant \div bsize

\* lines 1056-1057
NumBlockOf(nVariant, bsize) ==
    (nVariant \div bsize) + (IF nVariant % bsize # 0 THEN 1 ELSE 0)

\* lines 1205-1237: what the sink receives for a value of kind t and length
\* n, of which a binary connection takes m bytes: <<>> when it receives
\* nothing
StoreWrites(sink, t, n, m) ==
    IF sink = "list" THEN <<[elem |-> t, len |-> n]>>
    ELSE IF sink = "text"
         THEN IF Rf_isList(t) THEN <<>>
              ELSE [k \in 1..n |-> [line |-> k, coerced |-> ~Rf_isString(t)]]
    ELSE IF sink = "binary"
         THEN IF t # "raw" THEN <<>> ELSE [k \in 1..m |-> [byte |-> k]]
    ELSE IF sink = "gds" THEN <<[append |-> t, len |-> n]>>
    ELSE <<>>

\* a faulty variant of StoreThrows: a text connection takes text only
StoreThrows_Strict(sink, t, n, m) ==
    \/ sink = "text" /\ ~Rf_isString(t)
    \/ sink = "binary" /\ (t # "raw" \/ n # m)

\* lines 1213-1215, 1226-1227, 1230-1231: the store throws
StoreThrows(sink, t, n, m) ==
    \/ sink = "text" /\ Rf_isList(t)
    \/ sink = "binary" /\ (t # "raw" \/ n # m)

InitApply ==
    /\ kind = "apply"
    /\ \E mask \in VariantMasks, samp \in SampleMasks, b \in 0..MaxBsize,
          v \in VarIdxModes, snk \in Sinks :
          ba = [stack |-> <<SelectionOf(mask, samp)>>,
                bsize |-> b,
                VarIdx |-> v,
                sink |-> snk,
                at |-> "enter",
                NumBlock |-> 0,
                idx |-> 0,
                pSel |-> 0,
                calls |-> <<>>,
                out |-> <<>>,
                err |-> "none"]
    /\ varidx = <<>>
    /\ pIdx = <<>>
    /\ pI = <<>>
    /\ i = 1
    /\ status = "run"
    /\ pc = "top"
    /\ Verbose = FALSE
    /\ hit = <<>>
    /\ val = <<>>
    /\ exp_var = <<>>
    /\ allele_list = <<>>
    /\ geno_raw = <<>>
    /\ geno_buffer = <<>>
    /\ geno_idx = <<>>
    /\ geno_var = <<>>
    /\ warned = 0
    /\ has_idx = FALSE
    /\ RD = <<>>
    /\ info_var = <<>>
    /\ info_idx = <<>>
    /\ OtherIdle
    /\ PhaseIdle
    /\ GetIdle

ApplyFrame ==
    UNCHANGED <<kind, Verbose, varidx, pIdx, pI, i, status, pc, hit, val,
                exp_var, allele_list, geno_raw, geno_buffer, geno_idx,
                geno_var, warned, has_idx, RD, info_var, info_idx, uin, ures,
                pk, phase_var, phase_buf, phase_raw, gd>>

\* lines 1019-1131: the arguments are checked, the local selection is pushed
BApplyEnter ==
    /\ kind = "apply"
    /\ ba.at = "enter"
    /\ ba' = IF ba.bsize < 1
             THEN [ba EXCEPT !.at = "failed", !.err = "bsize"]
             ELSE IF NoSelected(ba.stack[Len(ba.stack)].varTrueNum)
             THEN [ba EXCEPT !.at = "failed", !.err = "no selection"]
             ELSE [ba EXCEPT !.at = "loop",
                             !.NumBlock =
                                NumBlockOf(ba.stack[Len(ba.stack)].varTrueNum,
                                           ba.bsize),
                             !.stack = Push_Selection(ba.stack),
                             !.pSel = 0,
                             !.idx = 0]
    /\ ApplyFrame

\* lines 1137-1243: one chunk.  The retrieval (VarGetData), the transform
\* (eval) and the store may each fail; then the call is left at once
BApplyChunk ==
    /\ kind = "apply"
    /\ ba.at = "loop"
    /\ ba.idx < ba.NumBlock
    /\ LET mask == ba.stack[1].pVariant
           ci == ChunkIndex(ba.VarIdx, ba.idx, ba.bsize, mask, ba.pSel)
           ss == SubSelection(ba.stack[Len(ba.stack)], mask, ci.pSel,
                              ba.bsize)
           narrowed == [ba EXCEPT !.stack[Len(ba.stack)] = ss.sel,
                                  !.pSel = ss.pSel]
           call == [index |-> ci.index, idx |-> ba.idx,
                    records |-> TruePositions(ss.sel.pVariant),
                    result |-> <<>>]
       IN  \/ ba' = [narrowed EXCEPT !.at = "failed", !.err = "retrieval"]
           \/ ba' = [narrowed EXCEPT !.at = "failed", !.err = "transform",
                                     !.calls = Append(@, call)]
           \/ \E t \in ResultTypes, n \in 0..MaxResultLen :
              \E m \in (IF ba.sink = "binary" /\ t = "raw" THEN 0..n
                        ELSE {n}) :
                 ba' = IF StoreThrows(ba.sink, t, n, m)
                       THEN [narrowed EXCEPT
                               !.at = "failed", !.err = "sink",
                               !.calls = Append(@, [call EXCEPT
                                                      !.result = <<t, n>>]),
                               !.out = @ \o StoreWrites(ba.sink, t, n, m)]
                       ELSE [narrowed EXCEPT
                               !.idx = @ + 1,
                               !.calls = Append(@, [call EXCEPT
                                                      !.result = <<t, n>>]),
                               !.out = @ \o StoreWrites(ba.sink, t, n, m)]
    /\ ApplyFrame

\* lines 1245-1248: the local selection is popped
BApplyExit ==
    /\ kind = "apply"
    /\ ba.at = "loop"
    /\ ba.idx = ba.NumBlock
    /\ ba' = [ba EXCEPT !.at = "done", !.stack = Pop_Selection(ba.stack)]
    /\ ApplyFrame

(***************************************************************************)
(* The allele union of one global record, merged in one call and in two.   *)
(* uin[1], uin[2], uin[3] are the allele strings files A, B, C hold for    *)
(* the record: <<>> when the file has no such record, <<s>> when it holds  *)
(* the string s.  The file written by a merge holds every global record,   *)
(* so it contributes its string to the second merge also when that string  *)
(* is empty.                                                               *)
(***************************************************************************)
RecordInputs == {<<>>} \cup {<<s>> : s \in AlleleStrings}

InitUnion ==
    /\ kind = "union"
    /\ uin \in [1..3 -> RecordInputs]
    /\ ures = <<>>
    /\ varidx = <<>>
    /\ pIdx = <<>>
    /\ pI = <<>>
    /\ i = 1
    /\ status = "run"
    /\ pc = "top"
    /\ Verbose = FALSE
    /\ hit = <<>>
    /\ val = <<>>
    /\ exp_var = <<>>
    /\ allele_list = <<>>
    /\ geno_raw = <<>>
    /\ geno_buffer = <<>>
    /\ geno_idx = <<>>
    /\ geno_var = <<>>
    /\ warned = 0
    /\ has_idx = FALSE
    /\ RD = <<>>
    /\ info_var = <<>>
    /\ info_idx = <<>>
    /\ pk = <<>>
    /\ PhaseIdle
    /\ ApplyIdle
    /\ GetIdle

UnionFrame ==
    UNCHANGED <<kind, Verbose, varidx, pIdx, pI, i, status, pc, hit, val, exp_var,
                allele_list, geno_raw, geno_buffer, geno_idx, geno_var, warned,
                has_idx, RD, info_var, info_idx, uin, pk,
                phase_var, phase_buf, phase_raw, ba, gd>>

\* SEQ_MergeAllele over {A, B}
UnionAB ==
    /\ kind = "union"
    /\ Len(ures) = 0
    /\ ures' = <<MergedAllele(uin[1] \o uin[2])>>
    /\ UnionFrame

\* SEQ_MergeAllele over {the result of {A, B}, C}
UnionResultC ==
    /\ kind = "union"
    /\ Len(ures) = 1
    /\ ures' = Append(ures, MergedAllele(<<ures[1]>> \o uin[3]))
    /\ UnionFrame

\* SEQ_MergeAllele over {A, B, C}
UnionABC ==
    /\ kind = "union"
    /\ Len(ures) = 2
    /\ ures' = Append(ures, MergedAllele(uin[1] \o uin[2] \o uin[3]))
    /\ UnionFrame

\* SEQ_MergeAllele over {A, A}
UnionSelf ==
    /\ kind = "union"
    /\ Len(ures) = 3
    /\ ures' = Append(ures, MergedAllele(uin[1] \o uin[1]))
    /\ UnionFrame

(***************************************************************************)
(* The plane codec: a code of a record with pk.n alleles is written as     *)
(* NumPlanes(pk.n) planes by SEQ_MergeGeno and read back from them.        *)
(***************************************************************************)
\* the reader of genotype/data: plane b holds the bits 2(b-1), 2(b-1)+1 of
\* the code; all bits set in every plane is the missing value
RECURSIVE PlaneSum(_, _)
PlaneSum(planes, b) ==
    IF b > Len(planes) THEN 0
    ELSE planes[b] * (2 ^ ((b - 1) * GenoNumBits)) + PlaneSum(planes, b + 1)

UnpackCode(planes) ==
    LET c == PlaneSum(planes, 1)
    IN  IF c = (2 ^ (GenoNumBits * Len(planes))) - 1 THEN NA_INTEGER ELSE c

InitPlane ==
    /\ kind = "plane"
    /\ \E n \in 1..MaxNumAllele :
       \E c \in (0..(n - 1)) \cup {NA_INTEGER} :
          pk = [n |-> n, code |-> c, planes |-> <<>>, back |-> <<>>]
    /\ uin = <<>>
    /\ ures = <<>>
    /\ varidx = <<>>
    /\ pIdx = <<>>
    /\ pI = <<>>
    /\ i = 1
    /\ status = "run"
    /\ pc = "top"
    /\ Verbose = FALSE
    /\ hit = <<>>
    /\ val = <<>>
    /\ exp_var = <<>>
    /\ allele_list = <<>>
    /\ geno_raw = <<>>
    /\ geno_buffer = <<>>
    /\ geno_idx = <<>>
    /\ geno_var = <<>>
    /\ warned = 0
    /\ has_idx = FALSE
    /\ RD = <<>>
    /\ info_var = <<>>
    /\ info_idx = <<>>
    /\ PhaseIdle
    /\ ApplyIdle
    /\ GetIdle

PlaneFrame ==
    UNCHANGED <<kind, Verbose, varidx, pIdx, pI, i, status, pc, hit, val, exp_var,
                allele_list, geno_raw, geno_buffer, geno_idx, geno_var, warned,
                has_idx, RD, info_var, info_idx, uin, ures,
                phase_var, phase_buf, phase_raw, ba, gd>>

\* FileMerge.cpp 212-223: the next plane of the code is appended
PlaneEmit ==
    /\ kind = "plane"
    /\ Len(pk.planes) < NumPlanes(pk.n)
    /\ pk' = [pk EXCEPT !.planes =
                Append(@, PlaneBits(pk.code, Len(pk.planes) * GenoNumBits))]
    /\ PlaneFrame

\* the planes of the record are read back
PlaneRead ==
    /\ kind = "plane"
    /\ Len(pk.planes) = NumPlanes(pk.n)
    /\ pk.back = <<>>
    /\ pk' = [pk EXCEPT !.back = <<UnpackCode(pk.planes)>>]
    /\ PlaneFrame

(***************************************************************************)
(* get_position and get_variant_index (src/src/GetData.cpp): one call.     *)
(*                                                                         *)
(* gd.Sel is the active selection of the session, gd.Position holds the    *)
(* position of every record of the file.  A call scans the record mask     *)
(* from varStart until it has written as many elements as the selection    *)
(* counts; gd.out is the result.  The mask has no entry at or beyond its   *)
(* length: a scan that gets there ends in gd.at = "fault".                 *)
(***************************************************************************)
\* the values a position takes
PositionValues == {11, 12}

\* the columns retrieved by a scan of the record mask
FixedNames == {"position", "$variant_index"}

\* File.VariantSelNum(): the count kept with the record mask
VariantSelNum(sel) == sel.varTrueNum

\* the loops of lines 113-114 and 445-446: the offsets of the first n TRUE
\* entries at or after offset q, and whether the scan read the mask at or
\* beyond its length
RECURSIVE ScanMask(_, _, _, _)
ScanMask(mask, n, q, acc) ==
    IF n <= 0 THEN [hits |-> acc, past |-> FALSE]
    ELSE IF q >= Len(mask) THEN [hits |-> acc, past |-> TRUE]
    ELSE IF mask[q + 1] THEN ScanMask(mask, n - 1, q + 1, Append(acc, q))
    ELSE ScanMask(mask, n, q + 1, acc)

\* a faulty variant of IndexWritten: the offset is written, not the index
IndexWritten_ZeroBased(q) == q

\* line 446: i is written after the increment of s[i++]
IndexWritten(q) == q + 1

\* line 114: *base of the record at offset q
PositionWritten(pos, q) == pos[q + 1]

GetRestIdle ==
    /\ varidx = <<>>
    /\ pIdx = <<>>
    /\ pI = <<>>
    /\ i = 1
    /\ status = "run"
    /\ pc = "top"
    /\ Verbose = FALSE
    /\ hit = <<>>
    /\ val = <<>>
    /\ exp_var = <<>>
    /\ allele_list = <<>>
    /\ geno_raw = <<>>
    /\ geno_buffer = <<>>
    /\ geno_idx = <<>>
    /\ geno_var = <<>>
    /\ warned = 0
    /\ has_idx = FALSE
    /\ RD = <<>>
    /\ info_var = <<>>
    /\ info_idx = <<>>
    /\ OtherIdle
    /\ PhaseIdle
    /\ ApplyIdle

InitGetFixed ==
    /\ kind = "getfixed"
    /\ \E mask \in VariantMasks, samp \in SampleMasks, name \in FixedNames,
          pos \in [1..MaxVariant -> PositionValues] :
          /\ name = "$variant_index" => pos = [q \in 1..MaxVariant |-> 11]
          /\ gd = [name |-> name,
                   Sel |-> SelectionOf(mask, samp),
                   Position |-> pos,
                   at |-> "enter",
                   out |-> <<>>]
    /\ GetRestIdle

GetFrame ==
    UNCHANGED <<kind, Verbose, varidx, pIdx, pI, i, status, pc, hit, val,
                exp_var, allele_list, geno_raw, geno_buffer, geno_idx,
                geno_var, warned, has_idx, RD, info_var, info_idx, uin, ures,
                pk, phase_var, phase_buf, phase_raw, ba>>

\* lines 106-119
get_position ==
    /\ kind = "getfixed"
    /\ gd.at = "enter"
    /\ gd.name = "position"
    /\ LET n == VariantSelNum(gd.Sel)
           r == ScanMask(gd.Sel.pVariant, n, gd.Sel.varStart, <<>>)
       IN  gd' = [gd EXCEPT
                    !.at = IF r.past THEN "fault" ELSE "done",
                    !.out = [k \in 1..Len(r.hits) |->
                               PositionWritten(gd.Position, r.hits[k])]]
    /\ GetFrame

\* lines 438-448
get_variant_index ==
    /\ kind = "getfixed"
    /\ gd.at = "enter"
    /\ gd.name = "$variant_index"
    /\ LET num == VariantSelNum(gd.Sel)
           r == ScanMask(gd.Sel.pVariant, num, gd.Sel.varStart, <<>>)
       IN  gd' = [gd EXCEPT
                    !.at = IF r.past THEN "fault" ELSE "done",
                    !.out = [k \in 1..Len(r.hits) |->
                               IndexWritten(r.hits[k])]]
    /\ GetFrame

(***************************************************************************)
(* get_info (src/src/GetData.cpp): one call on an annotation/info column.  *)
(*                                                                         *)
(* gd.Lengths[q] is the number of values record q of the column holds;     *)
(* without an index every record holds one value.  An element of the       *)
(* column is named by its record q, its place k in the run of the record   *)
(* and, in a 2-D column, its place c in the second dimension.              *)
(***************************************************************************)
MaxInfoRec == 3     \* records of the file in a retrieval of an info column
MaxDim1 == 2        \* extent of the second dimension of a 2-D info column

InfoMasks == [1..MaxInfoRec -> BOOLEAN]

\* TYPEOF(val): INTSXP, REALSXP, LGLSXP, STRSXP, RAWSXP, and any other
ElemTypes == {"INTSXP", "REALSXP", "LGLSXP", "STRSXP", "RAWSXP", "other"}
SupportedTypes == ElemTypes \ {"other"}

\* the element (q, k, c) of the column
StoredValue(q, k, c) ==
    [missing |-> FALSE, rec |-> q, k |-> k, c |-> c, na |-> "no"]

\* a faulty variant of MissingSlot: the slot keeps a zero
MissingSlot_Zero(t) ==
    [missing |-> FALSE, rec |-> 0, k |-> 0, c |-> 0, na |-> "no"]

\* lines 513, 520, 527, 536, 544: the value of a slot without a value
MissingSlot(t) ==
    [missing |-> TRUE, rec |-> 0, k |-> 0, c |-> 0,
     na |-> IF t = "INTSXP" THEN "NA_INTEGER"
            ELSE IF t = "REALSXP" THEN "R_NaN"
            ELSE IF t = "LGLSXP" THEN "NA_LOGICAL"
            ELSE IF t = "STRSXP" THEN "NA_STRING"
            ELSE "0xFF"]

\* CIndex::IsFixedOne(): every record holds exactly one value
IsFixedOne(L) == \A q \in 1..Len(L) : L[q] = 1

\* CIndex::ValLenMax(): the largest number of values a record holds
ValLenMax(L) == MaxOf({L[q] : q \in 1..Len(L)})

\* the positions of the selected records, in increasing order
RECURSIVE SelectedFrom(_, _)
SelectedFrom(mask, q) ==
    IF q > Len(mask) THEN <<>>
    ELSE (IF mask[q] THEN <<q>> ELSE <<>>) \o SelectedFrom(mask, q + 1)

\* CIndex::GetLen_Sel(): the lengths of the selected records
GetLen_Sel(L, mask) ==
    LET sel == SelectedFrom(mask, 1)
    IN  [m \in 1..Len(sel) |-> L[sel[m]]]

\* the d2 values of place k of record q
RECURSIVE RowOf(_, _, _, _)
RowOf(q, k, c, d2) ==
    IF c > d2 THEN <<>>
    ELSE <<StoredValue(q, k, c)>> \o RowOf(q, k, c + 1, d2)

\* the run of record q from place k on
RECURSIVE RunOf(_, _, _, _)
RunOf(q, k, len, d2) ==
    IF k > len THEN <<>>
    ELSE RowOf(q, k, 1, d2) \o RunOf(q, k + 1, len, d2)

\* GDS_R_Array_Read over the selected records: their runs in storage order
RECURSIVE BulkRead(_, _, _, _)
BulkRead(L, mask, q, d2) ==
    IF q > Len(mask) THEN <<>>
    ELSE (IF mask[q] THEN RunOf(q, 1, L[q], d2) ELSE <<>>)
         \o BulkRead(L, mask, q + 1, d2)

\* lines 512-513 and the loops like it: slot m takes the next value of the
\* bulk read when psel[m] is not zero, the missing value otherwise
RECURSIVE PadSlots(_, _, _, _, _)
PadSlots(psel, bulk, t, m, s) ==
    IF m > Len(psel) THEN <<>>
    ELSE IF psel[m] # 0
         THEN <<bulk[s]>> \o PadSlots(psel, bulk, t, m + 1, s + 1)
         ELSE <<MissingSlot(t)>> \o PadSlots(psel, bulk, t, m + 1, s)

\* a faulty variant of ListElems: the offset into the bulk read stays
RECURSIVE ListElems_NoAdvance(_, _, _, _, _)
ListElems_NoAdvance(psel, bulk, d2, m, pt) ==
    IF m > Len(psel) THEN <<>>
    ELSE <<SubSeq(bulk, pt + 1, pt + psel[m] * d2)>>
         \o ListElems_NoAdvance(psel, bulk, d2, m + 1, pt)

\* lines 558-595: element m is the nn = psel[m] * d2 values of the bulk read
\* from offset pt on, and pt moves on by nn
RECURSIVE ListElems(_, _, _, _, _)
ListElems(psel, bulk, d2, m, pt) ==
    IF m > Len(psel) THEN <<>>
    ELSE <<SubSeq(bulk, pt + 1, pt + psel[m] * d2)>>
         \o ListElems(psel, bulk, d2, m + 1, pt + psel[m] * d2)

\* line 501: the result can be flattened
CanFlatten(padNA, L, NDim) == padNA /\ ValLenMax(L) = 1 /\ NDim = 1

\* line 460: the column is read without its index
DirectRead(HasIndex, padNA, L) == ~HasIndex \/ (padNA /\ IsFixedOne(L))

InitGetInfo ==
    /\ kind = "getinfo"
    /\ \E mask \in InfoMasks, samp \in SampleMasks,
          L \in [1..MaxInfoRec -> 0..MaxRun], hasidx \in BOOLEAN,
          pad \in BOOLEAN, lst \in BOOLEAN, nd \in 1..2, t \in ElemTypes :
          /\ ~hasidx => IsFixedOne(L)
          /\ gd = [Sel |-> SelectionOf(mask, samp),
                   Lengths |-> L,
                   HasIndex |-> hasidx,
                   padNA |-> pad,
                   tolist |-> lst,
                   NDim |-> nd,
                   Dim1 |-> IF nd = 2 THEN MaxDim1 ELSE 0,
                   type |-> t,
                   at |-> "enter",
                   I32 |-> <<>>,
                   val |-> <<>>,
                   form |-> "none",
                   out |-> <<>>]
    /\ GetRestIdle

\* lines 451-608
get_info ==
    /\ kind = "getinfo"
    /\ gd.at = "enter"
    /\ LET mask == gd.Sel.pVariant
           d2 == IF gd.NDim < 2 THEN 1 ELSE gd.Dim1
           psel == GetLen_Sel(gd.Lengths, mask)
           bulk == BulkRead(gd.Lengths, mask, 1, d2)
       IN  IF DirectRead(gd.HasIndex, gd.padNA, gd.Lengths)
           THEN gd' = [gd EXCEPT !.at = "done", !.form = "array",
                                 !.val = bulk, !.out = bulk]
           ELSE IF CanFlatten(gd.padNA, gd.Lengths, gd.NDim)
           THEN IF gd.type \in SupportedTypes
                THEN gd' = [gd EXCEPT
                              !.at = "done", !.form = "padded",
                              !.I32 = psel, !.val = bulk,
                              !.out = PadSlots(psel, bulk, gd.type, 1, 1)]
                ELSE gd' = [gd EXCEPT !.at = "failed", !.I32 = psel,
                                      !.val = bulk]
           ELSE IF gd.tolist
           THEN IF gd.type \in SupportedTypes
                   \/ \A m \in 1..Len(psel) : psel[m] * d2 <= 0
                THEN gd' = [gd EXCEPT
                              !.at = "done", !.form = "list",
                              !.I32 = psel, !.val = bulk,
                              !.out = ListElems(psel, bulk, d2, 1, 0)]
                ELSE gd' = [gd EXCEPT !.at = "failed", !.I32 = psel,
                                      !.val = bulk]
           ELSE gd' = [gd EXCEPT !.at = "done", !.form = "length_data",
                                 !.I32 = psel, !.val = bulk, !.out = bulk]
    /\ GetFrame

(***************************************************************************)
(* get_format (src/src/GetData.cpp): one call on an annotation/format      *)
(* column, a 2-D node of rows by samples.                                  *)
(*                                                                         *)
(* gd.Lengths[q] is the number of rows record q holds.  An element of the  *)
(* column is named by its record q, its row k in the run of the record and *)
(* its sample c.                                                           *)
(***************************************************************************)
MaxSample == 2      \* samples of the file in a retrieval of a format column

FormatSampleMasks == [1..MaxSample -> BOOLEAN]

\* CFileInfo::SampleNum(): the number of samples of the file
SampleNum(Sel) == Len(Sel.pSample)

\* CFileInfo::SampleSelNum(): the number of selected samples
SampleSelNum(Sel) == Cardinality(TruePositions(Sel.pSample))

\* the values of row k of record q for the selected samples, in sample order
RECURSIVE FormatRow(_, _, _, _)
FormatRow(q, k, samp, c) ==
    IF c > Len(samp) THEN <<>>
    ELSE (IF samp[c] THEN <<StoredValue(q, k, c)>> ELSE <<>>)
         \o FormatRow(q, k, samp, c + 1)

\* the rows of record q from row k on
RECURSIVE FormatRun(_, _, _, _)
FormatRun(q, k, len, samp) ==
    IF k > len THEN <<>>
    ELSE FormatRow(q, k, samp, 1) \o FormatRun(q, k + 1, len, samp)

\* GDS_R_Array_Read with the selection { var_sel, Sel.pSample }: the rows of
\* the selected records, each cut down to the selected samples
RECURSIVE FormatRead(_, _, _, _)
FormatRead(L, mask, samp, q) ==
    IF q > Len(mask) THEN <<>>
    ELSE (IF mask[q] THEN FormatRun(q, 1, L[q], samp) ELSE <<>>)
         \o FormatRead(L, mask, samp, q + 1)

\* what a read past the last value of the bulk read finds
Beyond == [missing |-> FALSE, rec |-> 0, k |-> 0, c |-> 0, na |-> "beyond"]

\* line 672 of get_format: the number of values of one row of an element
ElemRows(Sel) == SampleNum(Sel)

\* lines 674-708: element m is filled with nn = psel[m] * d2 values copied
\* from offset pt of the bulk read on, and pt moves on by nn
RECURSIVE FormatElems(_, _, _, _, _)
FormatElems(psel, bulk, d2, m, pt) ==
    IF m > Len(psel) THEN <<>>
    ELSE LET nn == psel[m] * d2
         IN  <<[x \in 1..nn |-> IF pt + x <= Len(bulk) THEN bulk[pt + x]
                                ELSE Beyond]>>
             \o FormatElems(psel, bulk, d2, m + 1, pt + nn)

\* the offset pt after the loop of lines 674-708
RECURSIVE FinalOffset(_, _, _)
FinalOffset(psel, d2, m) ==
    IF m > Len(psel) THEN 0
    ELSE psel[m] * d2 + FinalOffset(psel, d2, m + 1)

InitGetFormat ==
    /\ kind = "getformat"
    /\ \E mask \in InfoMasks, samp \in FormatSampleMasks,
          L \in [1..MaxInfoRec -> 0..MaxRun], hasidx \in BOOLEAN,
          pad \in BOOLEAN, lst \in BOOLEAN, t \in ElemTypes :
          /\ ~hasidx => IsFixedOne(L)
          /\ gd = [Sel |-> SelectionOf(mask, samp),
                   Lengths |-> L,
                   HasIndex |-> hasidx,
                   padNA |-> pad,
                   tolist |-> lst,
                   type |-> t,
                   at |-> "enter",
                   I32 |-> <<>>,
                   val |-> <<>>,
                   form |-> "none",
                   pt |-> 0,
                   out |-> <<>>]
    /\ GetRestIdle

\* lines 611-715
get_format ==
    /\ kind = "getformat"
    /\ gd.at = "enter"
    /\ LET mask == gd.Sel.pVariant
           samp == gd.Sel.pSample
           psel == GetLen_Sel(gd.Lengths, mask)
           bulk == FormatRead(gd.Lengths, mask, samp, 1)
           d2 == ElemRows(gd.Sel)
           pt == FinalOffset(psel, d2, 1)
       IN  IF DirectRead(gd.HasIndex, gd.padNA, gd.Lengths)
           THEN gd' = [gd EXCEPT !.at = "done", !.form = "array",
                                 !.val = bulk, !.out = bulk]
           ELSE IF ~gd.tolist
           THEN gd' = [gd EXCEPT !.at = "done", !.form = "length_data",
                                 !.I32 = psel, !.val = bulk, !.out = bulk]
           ELSE IF gd.type \notin SupportedTypes
           THEN gd' = [gd EXCEPT !.at = "failed", !.I32 = psel,
                                 !.val = bulk]
           ELSE \* a copy that runs past the bulk read either faults or
                \* takes what lies beyond it
                \E end \in (IF pt > Len(bulk) THEN {"done", "fault"}
                            ELSE {"done"}) :
                   gd' = [gd EXCEPT
                            !.at = end, !.form = "list",
                            !.I32 = psel, !.val = bulk, !.pt = pt,
                            !.out = IF end = "done"
                                    THEN FormatElems(psel, bulk, d2, 1, 0)
                                    ELSE <<>>]
    /\ GetFrame

(***************************************************************************)
(* The combined buffer of one global record (SEQ_MergeGeno, SEQ_MergePhase *)
(* of src/src/FileMerge.cpp) under any arguments of the caller.            *)
(*                                                                         *)
(* gd.nsamp and gd.ploidy are INTEGER(num)[1] and INTEGER(num)[2],         *)
(* gd.Num_Sample[j] is the number of selected samples of source file j,    *)
(* gd.j the file the inner loop is at, gd.off the distance of pGeno (pp)   *)
(* from the start of the buffer and gd.cnt the length of the buffer.       *)
(***************************************************************************)
MaxNumSamp == 3     \* largest sample count a caller passes in num
MaxPloidy == 2      \* largest ploidy a caller passes in num

\* lines 142, 257: the values of one sample in the buffer
PerSample(k, pl) == IF k = "fillgeno" THEN pl ELSE pl - 1

\* lines 143-146, 257-261: geno_buffer(geno_cnt), phase_buf(pcnt)
BufferLen(k, ns, pl) == ns * PerSample(k, pl)

\* lines 166, 274: size = FILE.Num_Sample * ploidy (ploidy - 1)
SlotLen(k, n, pl) == n * PerSample(k, pl)

InitFill ==
    /\ kind \in {"fillgeno", "fillphase"}
    /\ \E ns \in 0..MaxNumSamp, pl \in 1..MaxPloidy,
          n \in [Files -> 0..MaxSample], m \in [Files -> BOOLEAN] :
          gd = [nsamp |-> ns,
                ploidy |-> pl,
                Num_Sample |-> n,
                contributes |-> m,
                cnt |-> BufferLen(kind, ns, pl),
                j |-> 1,
                off |-> 0,
                beyond |-> FALSE,
                appended |-> 0,
                at |-> "loop"]
    /\ GetRestIdle

\* lines 163-199 and 271-288: one turn of the loop over the files.  The
\* slot of file j is read into, or filled at, off .. off + size - 1 and the
\* pointer moves on by size; a write past the buffer either faults or
\* lands beyond it
FillSlot ==
    /\ kind \in {"fillgeno", "fillphase"}
    /\ gd.at = "loop"
    /\ gd.j <= FileCnt
    /\ LET size == SlotLen(kind, gd.Num_Sample[gd.j], gd.ploidy)
           past == size > 0 /\ gd.off + size > gd.cnt
       IN  \E end \in (IF past THEN {"loop", "fault"} ELSE {"loop"}) :
              gd' = [gd EXCEPT
                       !.at = end,
                       !.beyond = @ \/ past,
                       !.off = IF end = "loop" THEN @ + size ELSE @,
                       !.j = IF end = "loop" THEN @ + 1 ELSE @]
    /\ GetFrame

\* lines 209-223 and 291: the buffer of the record is appended
AppendBuffer ==
    /\ kind \in {"fillgeno", "fillphase"}
    /\ gd.at = "loop"
    /\ gd.j > FileCnt
    /\ gd' = [gd EXCEPT !.at = "done", !.appended = gd.cnt]
    /\ GetFrame

(***************************************************************************)
(* VarGetStruct and VarGetData (src/src/GetData.cpp): the descriptors of a *)
(* file session.                                                           *)
(*                                                                         *)
(* gd.File is the file as it is now: its record and sample cardinality,    *)
(* the extents of the stored nodes, and gen, which counts the structural   *)
(* changes and so names the current handles of the nodes.  gd.VarMap is    *)
(* File.VarMap(), gd.last the latest call of VarGetData.                   *)
(***************************************************************************)
MaxAxis == 2        \* largest cardinality of the sample and the record axis
MaxChange == 1      \* structural changes of the file in a session

\* the names asked for: two fixed-shape columns, one on each axis, the
\* genotypes, a generated column, and a name that is no column
ColumnNames == {"sample.id", "position", "genotype", "$variant_index", "bogus"}

\* the stored nodes whose extents the session compares
CheckedNodes == {"sample.id", "position"}

\* the extents of a stored node: 1-D of any length, or 2-D
NodeShapes == {<<n>> : n \in 1..MaxAxis} \cup {<<1, 1>>}

\* no descriptor
NoVarMap == [in |-> FALSE, Obj |-> FALSE, ObjID |-> 0, Dim |-> <<>>,
             Func |-> "none", Name |-> ""]

\* the extents of the node at a path of the file
NodeDimOf(File, path) ==
    IF path \in DOMAIN File.NodeDim THEN File.NodeDim[path] ELSE <<>>

\* TVarMap::Init(File, path, func): the handle and the extents of the node
VmInit(File, path, func) ==
    [in |-> TRUE, Obj |-> TRUE, ObjID |-> File.gen,
     Dim |-> NodeDimOf(File, path),
     Func |-> func, Name |-> path]

\* lines 36-41, CHECK_SAMPLE_DIMENSION and CHECK_VARIANT_ONE_DIMENSION
DimMismatch(vm, n) == Len(vm.Dim) # 1 \/ vm.Dim[1] # n

\* strncmp(name.c_str(), p, strlen(p)) == 0
HasPrefix(name, p) == Len(name) >= Len(p) /\ SubSeq(name, 1, Len(p)) = p

\* name.find('@') != string::npos
HasAt(name) == \E k \in 1..Len(name) : SubSeq(name, k, k) = "@"

\* name[0] == '$' && name[1] == ':'
IsEnvName(name) == Len(name) >= 2 /\ SubSeq(name, 1, 2) = "$:"

\* lines 888-889: the marker at offset 18 is erased and "/@data" appended
FormatIndexPath(name) ==
    SubSeq(name, 1, 18) \o SubSeq(name, 20, Len(name)) \o "/@data"

\* a faulty variant of NameRule: a name with no rule is read as a node
NameRule_Lenient(name) ==
    [path |-> name, Func |-> "get_data_1d", check |-> "none"]

\* lines 803-921: the rule of a name: the path of the node it reads, the
\* retrieval function, and the test of the extents; check = "func" for a
\* generated column without a node, "env" for a variable of the caller,
\* "invalid" for a name with no rule
NameRule(name) ==
    IF name = "sample.id"
    THEN [path |-> name, Func |-> "get_sample_1d", check |-> "sample"]
    ELSE IF name = "position"
    THEN [path |-> name, Func |-> "get_position", check |-> "variant"]
    ELSE IF name = "chromosome"
    THEN [path |-> name, Func |-> "get_chrom", check |-> "variant"]
    ELSE IF name \in {"variant.id", "allele", "annotation/id",
                      "annotation/qual", "annotation/filter"}
    THEN [path |-> name, Func |-> "get_data_1d", check |-> "variant"]
    ELSE IF name = "genotype"
    THEN [path |-> "genotype/data", Func |-> "get_genotype",
          check |-> "none"]
    ELSE IF name = "@genotype"
    THEN [path |-> "genotype/@data", Func |-> "get_data_1d",
          check |-> "variant"]
    ELSE IF name = "phase"
    THEN [path |-> "phase/data", Func |-> "get_phase", check |-> "phase"]
    ELSE IF name = "$dosage"
    THEN [path |-> "", Func |-> "get_dosage", check |-> "func"]
    ELSE IF name = "$dosage_alt"
    THEN [path |-> "", Func |-> "get_dosage_alt", check |-> "func"]
    ELSE IF name = "$num_allele"
    THEN [path |-> "allele", Func |-> "get_num_allele", check |-> "variant"]
    ELSE IF name = "$ref"
    THEN [path |-> "allele", Func |-> "get_ref_allele", check |-> "variant"]
    ELSE IF name = "$alt"
    THEN [path |-> "allele", Func |-> "get_alt_allele", check |-> "variant"]
    ELSE IF name = "$chrom_pos"
    THEN [path |-> "chromosome", Func |-> "get_chrom_pos2",
          check |-> "variant"]
    ELSE IF name = "$chrom_pos_allele"
    THEN [path |-> "allele", Func |-> "get_chrom_pos_allele",
          check |-> "variant"]
    ELSE IF name = "$sample_index"
    THEN [path |-> "", Func |-> "get_sample_index", check |-> "func"]
    ELSE IF name = "$variant_index"
    THEN [path |-> "", Func |-> "get_variant_index", check |-> "func"]
    ELSE IF HasPrefix(name, "annotation/info/")
    THEN IF ~HasAt(name)
         THEN [path |-> name, Func |-> "get_info", check |-> "info"]
         ELSE [path |-> name, Func |-> "get_data_1d", check |-> "variant"]
    ELSE IF HasPrefix(name, "annotation/format/@")
    THEN [path |-> FormatIndexPath(name), Func |-> "get_data_1d",
          check |-> "variant"]
    ELSE IF HasPrefix(name, "annotation/format/")
    THEN [path |-> name \o "/data", Func |-> "get_format",
          check |-> "format"]
    ELSE IF HasPrefix(name, "sample.annotation/")
    THEN [path |-> name, Func |-> "get_sample_1d", check |-> "sample"]
    ELSE IF IsEnvName(name)
    THEN [path |-> SubSeq(name, 3, Len(name)), Func |-> "get_env_R",
          check |-> "env"]
    ELSE [path |-> "", Func |-> "none", check |-> "invalid"]

\* the tests of the extents that follow vm.Init, lines 806-896
RuleMismatch(check, vm, File) ==
    IF check = "sample" THEN DimMismatch(vm, File.SampleNum)
    ELSE IF check = "variant" THEN DimMismatch(vm, File.VariantNum)
    ELSE IF check = "phase"
    THEN \/ Len(vm.Dim) < 2
         \/ Len(vm.Dim) > 3
         \/ vm.Dim[1] # File.VariantNum
         \/ vm.Dim[2] # File.SampleNum
    ELSE IF check = "info" THEN Len(vm.Dim) # 1 /\ Len(vm.Dim) # 2
    ELSE IF check = "format" THEN Len(vm.Dim) # 2
    ELSE FALSE

\* a faulty variant of VarGetStruct: the descriptor is stored before the
\* name and the extents are judged
VarGetStruct_StoresFirst(VarMap, File, name) ==
    IF VarMap[name].in
    THEN [VarMap |-> VarMap, err |-> "none", checked |-> FALSE]
    ELSE LET r == NameRule(name)
             vm == VmInit(File, r.path, r.Func)
             stored == [VarMap EXCEPT ![name] = vm]
         IN  IF r.check = "invalid"
             THEN [VarMap |-> stored, err |-> "ERR_NAME", checked |-> FALSE]
             ELSE IF RuleMismatch(r.check, vm, File)
             THEN [VarMap |-> stored, err |-> "ERR_DIM", checked |-> TRUE]
             ELSE [VarMap |-> stored, err |-> "none",
                   checked |-> r.check \in {"sample", "variant", "phase"}]

\* lines 794-927: the descriptor map afterwards, the error thrown, and
\* whether the extents were compared with the cardinality of the file
VarGetStruct(VarMap, File, name) ==
    IF VarMap[name].in
    THEN [VarMap |-> VarMap, err |-> "none", checked |-> FALSE]
    ELSE LET r == NameRule(name)
             vm == IF r.check \in {"func", "env"}
                   THEN [NoVarMap EXCEPT
                           !.in = TRUE, !.Func = r.Func,
                           !.Name = IF r.check = "env" THEN r.path ELSE ""]
                   ELSE VmInit(File, r.path, r.Func)
         IN  IF r.check = "invalid"
             THEN [VarMap |-> VarMap, err |-> "ERR_NAME", checked |-> FALSE]
             ELSE IF RuleMismatch(r.check, vm, File)
             THEN [VarMap |-> VarMap, err |-> "ERR_DIM", checked |-> TRUE]
             ELSE [VarMap |-> [VarMap EXCEPT ![name] = vm], err |-> "none",
                   checked |-> r.check \in {"sample", "variant", "phase"}]

\* lines 935-945: GDS_Node_Load takes the current handle of the node
NodeLoad(vm, File) == IF vm.Obj THEN [vm EXCEPT !.ObjID = File.gen] ELSE vm

\* whether the node behind a fixed-shape column has the extent of its axis
Agrees(File, name) ==
    /\ Len(File.NodeDim[name]) = 1
    /\ File.NodeDim[name][1] =
          (IF name = "sample.id" THEN File.SampleNum ELSE File.VariantNum)

Files0 ==
    [VariantNum : 1..MaxAxis, SampleNum : 1..MaxAxis,
     NodeDim : [CheckedNodes -> NodeShapes], gen : {0}]

InitResolve ==
    /\ kind = "resolve"
    /\ \E F \in Files0 :
          gd = [File |-> F,
                VarMap |-> [name \in ColumnNames |-> NoVarMap],
                last |-> [name |-> "none", result |-> "none",
                          checked |-> FALSE, agreed |-> FALSE]]
    /\ GetRestIdle

\* lines 931-948: one retrieval
VarGetData ==
    /\ kind = "resolve"
    /\ \E name \in DOMAIN gd.VarMap :
          LET r == VarGetStruct(gd.VarMap, gd.File, name)
              agreed == name \in CheckedNodes => Agrees(gd.File, name)
          IN  IF r.err # "none"
              THEN gd' = [gd EXCEPT
                            !.VarMap = r.VarMap,
                            !.last = [name |-> name, result |-> r.err,
                                      checked |-> r.checked,
                                      agreed |-> agreed]]
              ELSE gd' = [gd EXCEPT
                            !.VarMap = [r.VarMap EXCEPT
                                          ![name] = NodeLoad(@, gd.File)],
                            !.last = [name |-> name, result |-> "data",
                                      checked |-> r.checked,
                                      agreed |-> agreed]]
    /\ GetFrame

\* a structural change of the file between two retrievals: records or
\* samples are added or removed, and the nodes get new handles
FileChange ==
    /\ kind = "resolve"
    /\ gd.File.gen < MaxChange
    /\ \E F \in Files0 :
          /\ <<F.VariantNum, F.SampleNum>>
                # <<gd.File.VariantNum, gd.File.SampleNum>>
          /\ gd' = [gd EXCEPT !.File = [F EXCEPT !.gen = gd.File.gen + 1]]
    /\ GetFrame

\* names a caller may ask for: the names with a rule, and names close to them
AllNames ==
    {"sample.id", "position", "chromosome", "variant.id", "allele",
     "annotation/id", "annotation/qual", "annotation/filter", "genotype",
     "@genotype", "phase", "$dosage", "$dosage_alt", "$num_allele", "$ref",
     "$alt", "$chrom_pos", "$chrom_pos_allele", "$sample_index",
     "$variant_index", "annotation/info/AC", "annotation/info/@AC",
     "annotation/info/", "annotation/format/DP", "annotation/format/@DP",
     "sample.annotation/sex", "$:x", "$:",
     "", "$", "bogus", "Position", "position2", "annotation/info",
     "annotation/inf/AC", "annotation/INFO/AC", "annotation/format",
     "sample.annotation", "$dosage2", "$variant.index", "genotype/data",
     "@phase", ":$x"}

\* the extents of a stored node: 1-D, 2-D or 3-D
NameShapes ==
    {<<n>> : n \in 1..MaxAxis}
    \cup {<<a, b>> : a \in 1..MaxAxis, b \in 1..MaxAxis}
    \cup {<<1, 1, 1>>}

\* the nodes the names read
NamePaths == {NameRule(name).path : name \in AllNames} \cup CheckedNodes

\* a session that is asked for one name, on a file whose nodes all have
\* the same extents
InitName ==
    /\ kind = "resolve"
    /\ \E name \in AllNames, v \in 1..MaxAxis, s \in 1..MaxAxis,
          shape \in NameShapes :
          gd = [File |-> [VariantNum |-> v, SampleNum |-> s,
                          NodeDim |-> [p \in NamePaths |-> shape],
                          gen |-> 0],
                VarMap |-> [n \in {name} |-> NoVarMap],
                last |-> [name |-> "none", result |-> "none",
                          checked |-> FALSE, agreed |-> FALSE]]
    /\ GetRestIdle

(***************************************************************************)
(* get_env_R (src/src/GetData.cpp): one call for a column "$:<name>".      *)
(*                                                                         *)
(* gd.Env is the kind of the object given as the environment, gd.bound     *)
(* whether it holds the variable, gd.xtype and gd.xlen the kind and the    *)
(* length of the value.  The element of the value at offset q is named by  *)
(* its position q + 1.                                                     *)
(***************************************************************************)
\* NULL, an environment, a list
EnvKinds == {"null", "environment", "list"}

\* the kinds of value of a variable: NULL, the vectors, and a function
ValueTypes == {"NULL", "integer", "factor", "logical", "real", "character",
               "raw", "complex", "list", "closure"}

\* Rf_isVector
Rf_isVector(t) ==
    t \in {"integer", "factor", "logical", "real", "character", "raw",
           "complex", "list"}

\* lines 745-781: Rf_isInteger, Rf_isLogical, Rf_isReal, Rf_isString
HasSubsetCopy(t) == t \in {"integer", "logical", "real", "character"}

\* the element of the value at offset q
EnvValue(xlen, q) == IF q < xlen THEN [rec |-> q + 1] ELSE [rec |-> 0]

\* a faulty variant of BadLength: the test of line 736 is gone
BadLength_Never(xlen, VariantNum) == FALSE

\* line 736
BadLength(xlen, VariantNum) == xlen # VariantNum

InitEnv ==
    /\ kind = "getenv"
    /\ \E mask \in VariantMasks, samp \in SampleMasks, e \in EnvKinds,
          b \in BOOLEAN, t \in ValueTypes, len \in 0..(MaxVariant + 1) :
          /\ e = "null" => ~b
          /\ ~b => (t = "NULL" /\ len = 0)
          /\ t = "NULL" => len = 0
          /\ gd = [Sel |-> SelectionOf(mask, samp),
                   Env |-> e,
                   bound |-> b,
                   xtype |-> t,
                   xlen |-> len,
                   at |-> "enter",
                   err |-> "none",
                   same |-> FALSE,
                   out |-> <<>>]
    /\ GetRestIdle

\* lines 718-790
get_env_R ==
    /\ kind = "getenv"
    /\ gd.at = "enter"
    /\ LET VariantNum == Len(gd.Sel.pVariant)
           isNull == gd.Env = "null" \/ ~gd.bound \/ gd.xtype = "NULL"
           n == VariantSelNum(gd.Sel)
           r == ScanMask(gd.Sel.pVariant, n, gd.Sel.varStart, <<>>)
       IN  IF isNull
           THEN gd' = [gd EXCEPT !.at = "failed", !.err = "no variable"]
           ELSE IF ~Rf_isVector(gd.xtype)
           THEN gd' = [gd EXCEPT !.at = "failed", !.err = "not a vector"]
           ELSE IF BadLength(gd.xlen, VariantNum)
           THEN gd' = [gd EXCEPT !.at = "failed", !.err = "length"]
           ELSE IF n # VariantNum
           THEN IF HasSubsetCopy(gd.xtype)
                THEN gd' = [gd EXCEPT
                              !.at = IF r.past THEN "fault" ELSE "done",
                              !.out = [k \in 1..Len(r.hits) |->
                                         EnvValue(gd.xlen, r.hits[k])]]
                ELSE gd' = [gd EXCEPT !.at = "failed",
                                      !.err = "no implementation"]
           ELSE gd' = [gd EXCEPT
                         !.at = "done", !.same = TRUE,
                         !.out = [k \in 1..gd.xlen |->
                                    EnvValue(gd.xlen, k - 1)]]
    /\ GetFrame

(***************************************************************************)
(* Specifications.                                                         *)
(***************************************************************************)
InitAllele == InitMerge("allele")
NextAllele == MergeAlleleStep
SpecAllele == InitAllele /\ [][NextAllele]_vars

InitGeno == InitMerge("geno")
NextGeno == GenoReadAllele \/ MergeGenoStep
SpecGeno == InitGeno /\ [][NextGeno]_vars

InitPhase == InitMerge("phase")
NextPhase == MergePhaseStep
SpecPhase == InitPhase /\ [][NextPhase]_vars

InitInfo == InitMerge("info")
NextInfo == MergeInfoStep
SpecInfo == InitInfo /\ [][NextInfo]_vars

NextApply == BApplyEnter \/ BApplyChunk \/ BApplyExit
SpecApply == InitApply /\ [][NextApply]_vars

NextUnion == UnionAB \/ UnionResultC \/ UnionABC \/ UnionSelf
SpecUnion == InitUnion /\ [][NextUnion]_vars

NextPlane == PlaneEmit \/ PlaneRead
SpecPlane == InitPlane /\ [][NextPlane]_vars

NextGetFixed == get_position \/ get_variant_index
SpecGetFixed == InitGetFixed /\ [][NextGetFixed]_vars

NextGetInfo == get_info
SpecGetInfo == InitGetInfo /\ [][NextGetInfo]_vars

NextResolve == VarGetData \/ FileChange
SpecResolve == InitResolve /\ [][NextResolve]_vars

NextName == VarGetData
SpecName == InitName /\ [][NextName]_vars

NextEnv == get_env_R
SpecEnv == InitEnv /\ [][NextEnv]_vars

NextGetFormat == get_format
SpecGetFormat == InitGetFormat /\ [][NextGetFormat]_vars

NextFill == FillSlot \/ AppendBuffer
SpecFill == InitFill /\ [][NextFill]_vars

\* a merge call of any kind
Init == \E k \in {"allele", "geno", "phase", "info"} : InitMerge(k)
Next ==
    \/ MergeAlleleStep
    \/ GenoReadAllele
    \/ MergeGenoStep
    \/ MergePhaseStep
    \/ MergeInfoStep
Spec == Init /\ [][Next]_vars


(***************************************************************************)
(* Properties.                                                             *)
(***************************************************************************)
\* the files whose entry of varidx at the cursor is the current record
ContributingFiles == {j \in Files : EntryIs(j)}

\* 1 when the entry of file j at its cursor is the current record, else 0
Consumed(j) == IF EntryIs(j) THEN 1 ELSE 0

\* C1: in a merge the global records are processed in increasing order, and
\* at record i file j contributes if and only if the entry of varidx[j] at
\* its cursor is i; the cursor of a contributing file advances by one local
\* record, the cursor of any other file stays.
C1_CursorContract ==
    [][ /\ i' >= i
        /\ (i' = i + 1) =>
              \A j \in Files :
                 /\ hit'[j] <=> EntryIs(j)
                 /\ pIdx'[j] = pIdx[j] + Consumed(j)
                 /\ pI'[j] = pI[j] + Consumed(j) ]_vars

\* s without the elements that occur earlier in s
RECURSIVE KeepFirst(_, _)
KeepFirst(s, k) ==
    IF k > Len(s) THEN <<>>
    ELSE (IF \E m \in 1..(k - 1) : s[m] = s[k] THEN <<>> ELSE <<s[k]>>)
         \o KeepFirst(s, k + 1)

\* the allele components of the files that contributed to the latest record,
\* files in file order, each list left to right
RECURSIVE SeenFrom(_)
SeenFrom(j) ==
    IF j > FileCnt THEN <<>>
    ELSE (IF hit[j] THEN GetAlleles(val[j]) ELSE <<>>) \o SeenFrom(j + 1)

NoRepeat(s) == \A a, b \in 1..Len(s) : s[a] = s[b] => a = b

\* C2: the allele string SEQ_MergeAllele wrote for the latest record holds
\* the distinct components of the contributing files, each once, in the
\* order of their first occurrence; it is empty when no file contributed.
C2_AlleleUnion ==
    (kind = "allele" /\ i > 1 /\ status # "error") =>
        LET out == exp_var[i - 1]
        IN  /\ Len(exp_var) = i - 1
            /\ GetAlleles(out) = KeepFirst(SeenFrom(1), 1)
            /\ NoRepeat(GetAlleles(out))
            /\ (hit = NoFile => out = <<>>)
            /\ (out # <<>> => Head(out) # "," /\ out[Len(out)] # ",")

C2_Witness ==
    /\ kind = "allele"
    /\ i > 1
    /\ status # "error"
    /\ hit = [j \in Files |-> TRUE]
    /\ val[1] = <<"C">>
    /\ val[2] = <<"A", ",", "C">>
    /\ exp_var[i - 1] = <<"C", ",", "A">>

\* C3 (as stated): merging a file with itself writes, for every allele
\* string s of the file, exactly s.
C3_SelfMergeAnyString ==
    (kind = "union" /\ Len(ures) = 4 /\ uin[1] # <<>>) => ures[4] = uin[1][1]

\* C3: merging a file with itself writes, for every allele string s of the
\* file whose components are pairwise distinct, exactly s.
C3_SelfMergeDistinct ==
    (kind = "union" /\ Len(ures) = 4 /\ uin[1] # <<>>
       /\ NoRepeat(GetAlleles(uin[1][1]))) => ures[4] = uin[1][1]

C3_Witness ==
    /\ kind = "union"
    /\ Len(ures) = 4
    /\ uin[1] = << <<"A", ",", "C">> >>
    /\ ures[4] = <<"A", ",", "C">>

\* C4: for one global record, merging {A, B} and then merging the result
\* with C writes the same allele string as merging {A, B, C} in one call.
C4_Associative ==
    (kind = "union" /\ Len(ures) >= 3) => ures[2] = ures[3]

C4_Witness ==
    /\ kind = "union"
    /\ Len(ures) >= 3
    /\ uin[1] = << <<"A">> >>
    /\ uin[2] = <<>>
    /\ uin[3] = << <<"C", ",", "A">> >>
    /\ ures[1] = <<"A">>
    /\ ures[2] = <<"A", ",", "C">>
    /\ ures[3] = <<"A", ",", "C">>

PlaneCountTable == <<1, 1, 1, 2, 2>>

\* C5: the plane count SEQ_MergeGeno appended for the latest record is the
\* least P >= 1 with 2^(2P) >= num_alleles + 1, num_alleles being the allele
\* count of the unified allele string of the record; for 1, 2, 3, 4, 5
\* alleles it is 1, 1, 1, 2, 2.
C5_PlaneCount ==
    (kind = "geno" /\ pc = "top" /\ geno_idx # <<>>) =>
        LET P == geno_idx[Len(geno_idx)]
            n == GetNumOfAllele(allele_list)
        IN  /\ P >= 1
            /\ 2 ^ (2 * P) >= n + 1
            /\ \A Q \in 1..(P - 1) : 2 ^ (2 * Q) < n + 1
            /\ (n \in 1..Len(PlaneCountTable) => P = PlaneCountTable[n])

C5_Witness ==
    /\ kind = "geno"
    /\ pc = "top"
    /\ geno_idx # <<>>
    /\ GetNumOfAllele(allele_list) = 5
    /\ geno_idx[Len(geno_idx)] = 2

\* C6: a code c in [0, num_alleles) or the missing value, written as P
\* planes, plane k holding (c >> 2k) & 3 and the missing value 3 in every
\* plane, and read back from the P planes, is c again; no code in
\* [0, num_alleles) is written as 3 in every plane.
C6_RoundTrip ==
    (kind = "plane" /\ pk.back # <<>>) =>
        /\ pk.back[1] = pk.code
        /\ Len(pk.planes) = NumPlanes(pk.n)
        /\ \A b \in 1..Len(pk.planes) :
              pk.planes[b] = IF pk.code = NA_INTEGER THEN 3
                             ELSE (pk.code \div (4 ^ (b - 1))) % 4
        /\ (pk.code # NA_INTEGER =>
               \E b \in 1..Len(pk.planes) : pk.planes[b] # 3)

C6_Witness ==
    /\ kind = "plane"
    /\ pk.n = 16
    /\ pk.code = 15
    /\ pk.planes = <<3, 3, 0>>
    /\ pk.back = <<15>>

\* C7: when SEQ_MergeInfo completes a record that files map, what it appends
\* to the value node is the value of the first such file in file order and
\* nothing else: one run of values, all of them of that file's record.
C7_FirstMatchWins ==
    [][ (kind = "info" /\ i' = i + 1 /\ ContributingFiles # {}) =>
          LET a == CHOOSE j \in ContributingFiles :
                      \A k \in ContributingFiles : j <= k
              new == SubSeq(info_var', Len(info_var) + 1, Len(info_var'))
          IN  /\ SubSeq(info_var', 1, Len(info_var)) = info_var
              /\ \A k \in 1..Len(new) : new[k] = <<a, pI[a], k>>
              /\ new = RD'
              /\ hit' = [j \in Files |-> j = a]
              /\ (~has_idx => Len(new) = 1)
              /\ (has_idx => info_idx' = Append(info_idx, Len(new))) ]_vars

C7_Witness ==
    /\ kind = "info"
    /\ i = 2
    /\ status # "error"
    /\ varidx[1] # <<>> /\ varidx[1][1] = 1
    /\ varidx[2] # <<>> /\ varidx[2][1] = 1
    /\ hit[1]
    /\ info_var = <<<<1, 0, 1>>>>

\* C8: when SEQ_MergeInfo completes a record that no file maps, it appends
\* one 0 to the companion and nothing to the value node, or, without a
\* companion, one missing scalar to the value node; when the merge is done
\* the companion, or without one the value node, holds TotalNum entries.
C8_AbsentFallback ==
    [][ kind = "info" =>
          /\ (i' = i + 1 /\ ContributingFiles = {}) =>
                IF has_idx
                THEN info_idx' = Append(info_idx, 0) /\ info_var' = info_var
                ELSE info_var' = Append(info_var, <<0, 0, NA_INTEGER>>)
                     /\ info_idx' = info_idx
          /\ (status' = "done") =>
                IF has_idx THEN Len(info_idx') = TotalNum
                ELSE Len(info_var') = TotalNum ]_vars

C8_Witness ==
    /\ kind = "info"
    /\ status = "done"
    /\ has_idx
    /\ hit = NoFile
    /\ Len(info_idx) = TotalNum
    /\ info_idx[TotalNum] = 0
    /\ info_var # <<>>

\* a local allele of a file whose allele string was read for the record is
\* not a component of the unified allele string
AlleleNotLocated(v, list) ==
    \E j \in Files : \E a \in Range(GetAlleles(v[j])) :
        a \notin Range(GetAlleles(list))

\* C9: an iteration of SEQ_MergeGeno in which a local allele of a
\* contributing file is not in the unified allele string ends in the error:
\* no plane count and no plane is appended for the record, what records
\* 1..i-1 appended stays, and no step follows the error.
C9_LookupMissAborts ==
    [][ /\ status # "error"
        /\ (kind = "geno" /\ pc = "files"
              /\ AlleleNotLocated(val', allele_list)) =>
              /\ status' = "error"
              /\ i' = i
              /\ geno_idx' = geno_idx
              /\ geno_var' = geno_var
              /\ Len(geno_idx) = i - 1 ]_vars

C9_Witness ==
    /\ kind = "geno"
    /\ status = "error"
    /\ i = 2
    /\ Len(geno_idx) = 1
    /\ geno_var # <<>>
    /\ AlleleNotLocated(val, allele_list)

\* the cells (file, position) read for the record whose code is not missing
\* and not an index into the file's allele list
OutOfRangeCells(v, raw) ==
    {c \in Files \X (1..geno_cnt) :
        /\ c[2] <= Len(raw[c[1]])
        /\ raw[c[1]][c[2]] # NA_INTEGER
        /\ ~(0 <= raw[c[1]][c[2]]
               /\ raw[c[1]][c[2]] < GetNumOfAllele(v[c[1]]))}

\* C10 (as stated): an iteration of SEQ_MergeGeno that reads a code which is
\* neither missing nor in the allele range of its file (and that meets no
\* other fault) raises a warning, leaves the code as it is in the genotype
\* buffer, appends the record and goes on with the next record.
C10_WarningOnly ==
    [][ (kind = "geno" /\ pc = "files"
           /\ OutOfRangeCells(val', geno_raw') # {}
           /\ ~AlleleNotLocated(val', allele_list)
           /\ \A j \in Files : pIdx'[j] <= Len(varidx[j])) =>
          /\ warned' = Cardinality(OutOfRangeCells(val', geno_raw'))
          /\ \A c \in OutOfRangeCells(val', geno_raw') :
                geno_buffer'[SumSamples(c[1] - 1) * ploidy + c[2]]
                   = geno_raw'[c[1]][c[2]]
          /\ Len(geno_idx') = Len(geno_idx) + 1
          /\ i' = i + 1
          /\ status' = (IF i = TotalNum THEN "done" ELSE "run") ]_vars

\* the same iteration when the progress is not printed
C10_WarningOnlyQuiet ==
    [][ (kind = "geno" /\ pc = "files" /\ ~Verbose
           /\ OutOfRangeCells(val', geno_raw') # {}
           /\ ~AlleleNotLocated(val', allele_list)
           /\ \A j \in Files : pIdx'[j] <= Len(varidx[j])) =>
          /\ warned' = Cardinality(OutOfRangeCells(val', geno_raw'))
          /\ \A c \in OutOfRangeCells(val', geno_raw') :
                geno_buffer'[SumSamples(c[1] - 1) * ploidy + c[2]]
                   = geno_raw'[c[1]][c[2]]
          /\ Len(geno_idx') = Len(geno_idx) + 1
          /\ i' = i + 1
          /\ status' = (IF i = TotalNum THEN "done" ELSE "run") ]_vars

\* the number of values of the slots of the files before file j
PhaseOffset(j) == SumSamples(j - 1) * (phase_ploidy - 1)

\* C11: SEQ_MergePhase appends, for a record it completes, exactly one flat
\* record of samples x (ploidy - 1) values; in it the slot of file j follows
\* the slots of the files before j, and holds the phase values read from
\* file j when the file contributes and zeros when it does not.
C11_PhaseRecord ==
    [][ kind = "phase" =>
          /\ SubSeq(phase_var', 1, Len(phase_var)) = phase_var
          /\ Len(phase_var') \in {Len(phase_var), Len(phase_var) + 1}
          /\ (i' = i + 1 => Len(phase_var') = i)
          /\ (Len(phase_var') = Len(phase_var) + 1) =>
                LET rec == phase_var'[Len(phase_var')]
                IN  /\ Len(rec) = nsamp * (phase_ploidy - 1)
                    /\ \A j \in Files :
                          /\ hit'[j] <=> EntryIs(j)
                          /\ \A k \in 1..(Num_Sample[j] * (phase_ploidy - 1)) :
                                rec[PhaseOffset(j) + k] =
                                   IF EntryIs(j) THEN phase_raw'[j][k] ELSE 0
        ]_vars

C11_Witness ==
    /\ kind = "phase"
    /\ i = 2
    /\ hit = <<FALSE, TRUE>>
    /\ phase_raw[2] = <<1>>
    /\ phase_var = << <<0, 1>> >>

\* the rank, within the selection, of the selected record at position q
RankOf(mask, q) == Cardinality({r \in TruePositions(mask) : r <= q})

\* the least c with c * B >= n
CeilDiv(n, B) == MinOf({c \in 0..n : c * B >= n})

\* C12: with n selected records and chunk size B the transform is called for
\* chunk k = 0, 1, ... in order, chunk k selecting the selected records of
\* rank k*B .. min((k+1)*B, n) - 1 (counted from 0); a call that is done made
\* ceil(n/B) chunks, they are disjoint, cover the selection, none is empty
\* and only the last may hold fewer than B records.
C12_Chunking ==
    (kind = "apply" /\ ba.at # "enter") =>
        LET mask == ba.stack[1].pVariant
            n == Cardinality(TruePositions(mask))
            B == ba.bsize
        IN  /\ \A k \in 1..Len(ba.calls) :
                  /\ ba.calls[k].idx = k - 1
                  /\ ba.calls[k].records =
                        {q \in TruePositions(mask) :
                            /\ RankOf(mask, q) - 1 >= (k - 1) * B
                            /\ RankOf(mask, q) - 1 <= k * B - 1}
                  /\ ba.calls[k].records # {}
                  /\ (k < CeilDiv(n, B) =>
                        Cardinality(ba.calls[k].records) = B)
                  /\ \A h \in 1..(k - 1) :
                        ba.calls[h].records \cap ba.calls[k].records = {}
            /\ (ba.at = "done" =>
                  /\ Len(ba.calls) = CeilDiv(n, B)
                  /\ UNION {ba.calls[k].records : k \in 1..Len(ba.calls)}
                        = TruePositions(mask))

C12_Witness ==
    /\ kind = "apply"
    /\ ba.at = "done"
    /\ ba.bsize = 2
    /\ ba.stack[1].pVariant = <<TRUE, FALSE, TRUE, TRUE>>
    /\ Len(ba.calls) = 2
    /\ ba.calls[1].records = {1, 3}
    /\ ba.calls[2].records = {4}

\* C13 (as stated): the record mask of the caller is never modified by the
\* call, and when the call has ended, normally or by an error, the selection
\* stack holds the selection of the caller and nothing else.
C13_SelectionRestored ==
    [][ kind = "apply" =>
          /\ ba'.stack[1] = ba.stack[1]
          /\ (ba'.at \in {"done", "failed"} => ba'.stack = <<ba.stack[1]>>)
      ]_vars

\* the same for a call that ends normally
C13_RestoredWhenDone ==
    [][ kind = "apply" =>
          /\ ba'.stack[1] = ba.stack[1]
          /\ (ba'.at = "done" => ba'.stack = <<ba.stack[1]>>) ]_vars

\* C14: the index given to the transform for chunk k (counted from 0) is
\* k*B + 1 in relative mode and the position in the record axis of the first
\* selected record of the chunk in absolute mode; mode none gives no index.
C14_ChunkIndex ==
    (kind = "apply") =>
        \A k \in 1..Len(ba.calls) :
           ba.calls[k].index =
              IF ba.VarIdx = 1 THEN (k - 1) * ba.bsize + 1
              ELSE IF ba.VarIdx = 2
                   THEN CHOOSE q \in TruePositions(ba.stack[1].pVariant) :
                           RankOf(ba.stack[1].pVariant, q)
                              = (k - 1) * ba.bsize + 1
              ELSE 0

C14_Witness ==
    /\ kind = "apply"
    /\ ba.VarIdx = 2
    /\ ba.bsize = 2
    /\ ba.stack[1].pVariant = <<TRUE, FALSE, TRUE, TRUE>>
    /\ Len(ba.calls) = 2
    /\ ba.calls[1].index = 1
    /\ ba.calls[2].index = 4

\* C15: a call with a chunk size below 1, or with no selected record, fails
\* at once: no selection is pushed, the transform is not called, nothing is
\* written; no step follows a failure.
C15_RejectedAtEntry ==
    [][ kind = "apply" =>
          /\ ba.at # "failed"
          /\ (ba.at = "enter"
                /\ (ba.bsize < 1 \/ TruePositions(ba.stack[1].pVariant) = {})) =>
                /\ ba'.at = "failed"
                /\ ba'.err = (IF ba.bsize < 1 THEN "bsize" ELSE "no selection")
                /\ ba'.stack = ba.stack
                /\ ba'.calls = <<>>
                /\ ba'.out = <<>> ]_vars

C15_Witness ==
    /\ kind = "apply"
    /\ ba.at = "failed"
    /\ ba.err = "no selection"
    /\ ba.bsize >= 1
    /\ Len(ba.stack) = 1
    /\ ba.calls = <<>>
    /\ ba.out = <<>>

\* the result of the transform in the chunk a step has just stored
LastResult(b) == b.calls[Len(b.calls)].result

\* the step stores the result of a transform
StoresResult(b, c) ==
    /\ Len(c.calls) = Len(b.calls) + 1
    /\ LastResult(c) # <<>>

\* C16 (as stated): with a binary connection a result that is not raw fails
\* the call at that chunk, nothing is written for the chunk and the output
\* of the chunks before stays; with a text connection a result that is not
\* text is written, coerced to text, one line per element, and the call
\* goes on.
C16_SinkContract ==
    [][ (kind = "apply" /\ StoresResult(ba, ba')) =>
          /\ (ba.sink = "binary" /\ LastResult(ba')[1] # "raw") =>
                ba'.at = "failed" /\ ba'.out = ba.out /\ ba'.idx = ba.idx
          /\ (ba.sink = "text" /\ LastResult(ba')[1] # "character") =>
                /\ ba'.at = "loop"
                /\ ba'.idx = ba.idx + 1
                /\ ba'.out = ba.out \o
                      [k \in 1..LastResult(ba')[2] |->
                          [line |-> k, coerced |-> TRUE]] ]_vars

\* C16: as above, but with a text connection only a result that is neither
\* text nor NULL nor a pairlist is coerced and written; NULL or a pairlist
\* fails the call at that chunk with nothing written for it.
C16_SinkContractNoPairlist ==
    [][ (kind = "apply" /\ StoresResult(ba, ba')) =>
          /\ (ba.sink = "binary" /\ LastResult(ba')[1] # "raw") =>
                ba'.at = "failed" /\ ba'.out = ba.out /\ ba'.idx = ba.idx
          /\ (ba.sink = "text"
                /\ LastResult(ba')[1] \notin {"character", "pairlist"}) =>
                /\ ba'.at = "loop"
                /\ ba'.idx = ba.idx + 1
                /\ ba'.out = ba.out \o
                      [k \in 1..LastResult(ba')[2] |->
                          [line |-> k, coerced |-> TRUE]]
          /\ (ba.sink = "text" /\ LastResult(ba')[1] = "pairlist") =>
                ba'.at = "failed" /\ ba'.out = ba.out /\ ba'.idx = ba.idx
      ]_vars

C16_Witness ==
    /\ kind = "apply"
    /\ ba.sink = "text"
    /\ ba.at = "done"
    /\ Len(ba.calls) = 2
    /\ ba.calls[1].result = <<"integer", 1>>
    /\ ba.calls[2].result = <<"character", 1>>
    /\ ba.out = <<[line |-> 1, coerced |-> TRUE],
                  [line |-> 1, coerced |-> FALSE]>>

\* the position of the selected record of rank k
KthSelected(mask, k) == CHOOSE q \in TruePositions(mask) : RankOf(mask, q) = k

\* C17: for every selection, "position" and "$variant_index" return exactly
\* as many elements as records are selected; element k is the position of
\* the selected record of rank k, respectively its 1-based index in the
\* unfiltered axis; with no record selected the result is empty and the call
\* ends normally; the scan never reads the mask at or beyond its length.
C17_FixedColumn ==
    (kind = "getfixed" /\ gd.at # "enter") =>
        LET mask == gd.Sel.pVariant
        IN  /\ gd.at = "done"
            /\ Len(gd.out) = Cardinality(TruePositions(mask))
            /\ \A k \in 1..Len(gd.out) :
                  gd.out[k] = IF gd.name = "position"
                              THEN gd.Position[KthSelected(mask, k)]
                              ELSE KthSelected(mask, k)

\* a gap before and between the selected records, and two distinct positions
C17_Witness ==
    /\ kind = "getfixed"
    /\ gd.at = "done"
    /\ SubSeq(gd.Sel.pVariant, 1, 3) = <<FALSE, TRUE, FALSE>>
    /\ Len(gd.out) = 2
    /\ gd.out[1] # gd.out[2]

\* the missing value of an element type, as the retrieval contract names it
SentinelOf(t) ==
    CASE t = "INTSXP" -> "NA_INTEGER"
      [] t = "REALSXP" -> "R_NaN"
      [] t = "LGLSXP" -> "NA_LOGICAL"
      [] t = "STRSXP" -> "NA_STRING"
      [] t = "RAWSXP" -> "0xFF"

\* a 1-D indexed column whose records hold one value or none, one at least
ScalarRagged ==
    /\ gd.HasIndex
    /\ gd.NDim = 1
    /\ \A q \in 1..Len(gd.Lengths) : gd.Lengths[q] <= 1
    /\ \E q \in 1..Len(gd.Lengths) : gd.Lengths[q] = 1

RECURSIVE Concat(_, _)
Concat(elems, m) ==
    IF m > Len(elems) THEN <<>> ELSE elems[m] \o Concat(elems, m + 1)

\* the result is one element per selected record, element m the run of the
\* selected record of rank m, and the elements together are the bulk read
OneRunPerRecord ==
    LET mask == gd.Sel.pVariant
        d2 == IF gd.NDim < 2 THEN 1 ELSE gd.Dim1
    IN  /\ gd.at = "done"
        /\ gd.form = "list"
        /\ Len(gd.out) = Cardinality(TruePositions(mask))
        /\ \A m \in 1..Len(gd.out) :
              LET q == KthSelected(mask, m)
              IN  /\ Len(gd.out[m]) = gd.Lengths[q] * d2
                  /\ gd.out[m] = RunOf(q, 1, gd.Lengths[q], d2)
        /\ Concat(gd.out, 1) = gd.val

\* an indexed column whose records do not all hold exactly one value
RaggedColumn == gd.HasIndex /\ ~IsFixedOne(gd.Lengths)

\* C19 as stated: list mode on a ragged info column gives one element per
\* selected record, element i holding exactly the run of record i, taken from
\* the bulk read after the runs of the earlier selected records; a record of
\* length 0 gives a zero-length element.
C19_ListMode ==
    (kind = "getinfo" /\ gd.at # "enter" /\ gd.tolist /\ RaggedColumn
        /\ gd.type \in SupportedTypes) => OneRunPerRecord

\* C19, amended: the same, for a column that NA-padding does not flatten,
\* that is with padNA off, or a column that is 2-D, or holds more than one
\* value in some record, or holds no value at all.
C19_ListModeUnlessPadded ==
    (kind = "getinfo" /\ gd.at # "enter" /\ gd.tolist /\ RaggedColumn
        /\ gd.type \in SupportedTypes
        /\ (~gd.padNA \/ gd.NDim = 2 \/ ValLenMax(gd.Lengths) # 1))
    => OneRunPerRecord

\* a 2-D column, an empty record between two records with values
C19_Witness ==
    /\ kind = "getinfo"
    /\ gd.at = "done"
    /\ gd.form = "list"
    /\ gd.tolist
    /\ gd.padNA
    /\ gd.NDim = 2
    /\ SubSeq(gd.Lengths, 1, 3) = <<2, 0, 1>>
    /\ SubSeq(gd.Sel.pVariant, 1, 3) = <<TRUE, TRUE, TRUE>>
    /\ Len(gd.out[1]) = 2 * gd.Dim1
    /\ gd.out[2] = <<>>
    /\ gd.out[3] = RunOf(3, 1, 1, gd.Dim1)

\* C20: every retrieval of a fixed-shape column compares the extents of the
\* column with the current sample or record cardinality of the file before
\* it returns data, also when the descriptor was memoized before the
\* cardinality changed; a mismatch gives a dimension error, not data.
C20_DimensionRechecked ==
    (kind = "resolve" /\ gd.last.name \in CheckedNodes) =>
        /\ gd.last.checked
        /\ ~gd.last.agreed => gd.last.result = "ERR_DIM"

\* the first retrieval of a fixed-shape column under a name compares the
\* extents, and a mismatch gives a dimension error and no descriptor
C20_CheckedWhenResolved ==
    [][ (kind = "resolve" /\ gd'.last # gd.last
           /\ gd'.last.name \in CheckedNodes
           /\ ~gd.VarMap[gd'.last.name].in) =>
           /\ gd'.last.checked
           /\ IF gd'.last.agreed
              THEN gd'.last.result = "data" /\ gd'.VarMap[gd'.last.name].in
              ELSE /\ gd'.last.result = "ERR_DIM"
                   /\ ~gd'.VarMap[gd'.last.name].in ]_vars

\* data from a memoized descriptor after the record count changed
C20_StaleData ==
    /\ kind = "resolve"
    /\ gd.last.name = "position"
    /\ gd.last.result = "data"
    /\ ~gd.last.agreed

\* the name patterns of the resolver table
FixedIdentifiers ==
    {"sample.id", "position", "chromosome", "variant.id", "allele",
     "annotation/id", "annotation/qual", "annotation/filter"}
DerivedNames ==
    {"$dosage", "$dosage_alt", "$num_allele", "$ref", "$alt", "$chrom_pos",
     "$chrom_pos_allele", "$sample_index", "$variant_index"}
MatchesPattern(name) ==
    \/ name \in FixedIdentifiers \cup {"genotype", "phase"} \cup DerivedNames
    \/ HasPrefix(name, "annotation/info/")
    \/ HasPrefix(name, "annotation/format/")
    \/ HasPrefix(name, "sample.annotation/")
    \/ HasPrefix(name, "$:")

\* the latest call failed with the invalid-name error and left no descriptor
InvalidNameError ==
    /\ gd.last.result = "ERR_NAME"
    /\ ~gd.VarMap[gd.last.name].in

\* C21 as stated: a name that matches none of the patterns of the resolver
\* table (the fixed identifiers, genotype, phase, the listed $-names,
\* annotation/info/<name>, annotation/format/<name>,
\* sample.annotation/<name>, $:<name>) fails with the invalid-name error and
\* returns no data.
C21_InvalidName ==
    (kind = "resolve" /\ gd.last.name # "none"
        /\ ~MatchesPattern(gd.last.name)) => InvalidNameError

\* C21, amended: the same for every name that matches none of the patterns
\* and is not "@genotype", the index of the genotypes, which has a rule.
C21_InvalidNameButGenoIndex ==
    (kind = "resolve" /\ gd.last.name # "none"
        /\ ~MatchesPattern(gd.last.name)
        /\ gd.last.name # "@genotype") => InvalidNameError

\* a name one character away from a prefix rule is refused
C21_Witness ==
    /\ kind = "resolve"
    /\ gd.last.name = "annotation/info"
    /\ gd.last.result = "ERR_NAME"

\* the lookup of a "$:" column must fail: there is no such variable, its
\* value is no vector, or its length is not the record count of the file
EnvLookupFails ==
    \/ gd.Env = "null"
    \/ ~gd.bound
    \/ ~Rf_isVector(gd.xtype)
    \/ gd.xlen # Len(gd.Sel.pVariant)

\* the result is the supplied values at the selected records, in order, and
\* the supplied vector itself when every record is selected
EnvSubset ==
    LET mask == gd.Sel.pVariant
    IN  /\ gd.at = "done"
        /\ Len(gd.out) = Cardinality(TruePositions(mask))
        /\ \A k \in 1..Len(gd.out) : gd.out[k].rec = KthSelected(mask, k)
        /\ (\A q \in 1..Len(mask) : mask[q]) => gd.same

\* C22 as stated: a "$:<name>" lookup fails when the environment has no such
\* variable, the value is not a vector, or its length differs from the total
\* record count; otherwise the result has one element per selected record,
\* element k the supplied value at the selected record of rank k, and with
\* every record selected the supplied vector is returned unchanged.
C22_EnvColumn ==
    (kind = "getenv" /\ gd.at # "enter") =>
        IF EnvLookupFails THEN gd.at = "failed" ELSE EnvSubset

\* C22, amended: the same, where the subset of a selection that leaves
\* records out is taken of an integer, logical, real or character vector;
\* for another kind of vector that call fails as not implemented.
C22_EnvColumnCopied ==
    (kind = "getenv" /\ gd.at # "enter") =>
        IF EnvLookupFails THEN gd.at = "failed" /\ gd.err # "no implementation"
        ELSE IF HasSubsetCopy(gd.xtype)
                \/ \A q \in 1..Len(gd.Sel.pVariant) : gd.Sel.pVariant[q]
             THEN EnvSubset
             ELSE gd.at = "failed" /\ gd.err = "no implementation"

\* a subset with a gap of a character vector
C22_Witness ==
    /\ kind = "getenv"
    /\ gd.at = "done"
    /\ gd.xtype = "character"
    /\ SubSeq(gd.Sel.pVariant, 1, 3) = <<FALSE, TRUE, FALSE>>
    /\ Len(gd.out) = 2
    /\ gd.out[1].rec = 2

\* the sum of the entries of s
RECURSIVE SumOf(_, _)
SumOf(s, k) == IF k > Len(s) THEN 0 ELSE s[k] + SumOf(s, k + 1)

\* the global records SEQ_MergeGeno has appended so far
GenoProcessed == IF status = "crash" THEN i ELSE i - 1

\* plane b of the genotype buffer, low bits first
PlaneOfBuffer(buf, b) ==
    [k \in 1..Len(buf) |->
        IF buf[k] = NA_INTEGER THEN 3 ELSE (buf[k] \div (4 ^ (b - 1))) % 4]

\* C23: in SEQ_MergeGeno, after global record g is processed the companion
\* index holds exactly g plane counts and the genotype node holds exactly
\* P_1 + ... + P_g planes of samples x ploidy values each; the plane count of
\* a record and then its planes, low bits first, are all appended in the
\* iteration of that record, before anything of the next record.
C23_RecordAppends ==
    /\ [](kind = "geno" =>
            /\ Len(geno_idx) = GenoProcessed
            /\ Len(geno_var) = SumOf(geno_idx, 1)
            /\ \A b \in 1..Len(geno_var) : Len(geno_var[b]) = nsamp * ploidy)
    /\ [][ (kind = "geno" /\ (geno_idx' # geno_idx \/ geno_var' # geno_var))
           => /\ pc = "files"
              /\ Len(geno_idx') = Len(geno_idx) + 1
              /\ SubSeq(geno_idx', 1, Len(geno_idx)) = geno_idx
              /\ LET P == geno_idx'[Len(geno_idx')]
                 IN  /\ Len(geno_var') = Len(geno_var) + P
                     /\ SubSeq(geno_var', 1, Len(geno_var)) = geno_var
                     /\ \A b \in 1..P :
                           geno_var'[Len(geno_var) + b]
                              = PlaneOfBuffer(geno_buffer', b) ]_vars

\* two records appended, the second in two planes
C23_Witness ==
    /\ kind = "geno"
    /\ Len(geno_idx) = 2
    /\ geno_idx[2] = 2
    /\ Len(geno_var) = geno_idx[1] + 2
    /\ geno_var[Len(geno_var)] # geno_var[Len(geno_var) - 1]

\* the offset of the slot of file j in the genotype buffer
SlotOffset(j) == SumSamples(j - 1) * ploidy

\* C24: in SEQ_MergeGeno, for every record appended, every in-range local
\* code c of a contributing file is replaced by the index, in the unified
\* allele list of the record, of the local allele number c of that file;
\* every cell of a file that does not contribute is the missing value and is
\* 3 in every plane of the record; the slot of file j follows the slots of
\* the files before it.
C24_RemapAndFill ==
    [][ (kind = "geno" /\ pc = "files" /\ geno_idx' # geno_idx) =>
          LET P == geno_idx'[Len(geno_idx')]
              unified == GetAlleles(allele_list)
          IN  \A j \in Files : \A k \in 1..SlotSize(j) :
                 LET cell == geno_buffer'[SlotOffset(j) + k]
                 IN  IF hit'[j]
                     THEN LET c == geno_raw'[j][k]
                              local == GetAlleles(val'[j])
                          IN  (0 <= c /\ c < Len(local)) =>
                                 /\ 0 <= cell
                                 /\ cell < Len(unified)
                                 /\ unified[cell + 1] = local[c + 1]
                     ELSE /\ cell = NA_INTEGER
                          /\ \A b \in 1..P :
                                geno_var'[Len(geno_var) + b]
                                   [SlotOffset(j) + k] = 3 ]_vars

\* the first file's allele 0 is allele 1 of the record, the last file has
\* no such record
C24_Witness ==
    /\ kind = "geno"
    /\ pc = "top"
    /\ geno_idx # <<>>
    /\ hit[1]
    /\ ~hit[FileCnt]
    /\ geno_raw[1][1] = 0
    /\ geno_buffer[1] = 1
    /\ geno_buffer[SlotOffset(FileCnt) + 1] = NA_INTEGER

\* a chunk has been narrowed: the active selection is the sub-selection
ChunkNarrowed ==
    /\ kind = "apply"
    /\ Len(ba.stack) = 2
    /\ (ba.idx > 0 \/ ba.at = "failed")

\* the selected records of the caller the latest chunk is made of
LatestChunk ==
    LET mask == ba.stack[1].pVariant
        k == IF ba.at = "failed" THEN ba.idx ELSE ba.idx - 1
    IN  {q \in TruePositions(mask) :
            /\ RankOf(mask, q) - 1 >= k * ba.bsize
            /\ RankOf(mask, q) - 1 <= (k + 1) * ba.bsize - 1}

\* C25: during every chunk the narrowed selection satisfies the selection
\* invariant: varStart is the index of the first True entry of the chunk,
\* varEnd - 1 the index of its last True entry, varTrueNum the popcount of
\* the narrowed mask, and the mask holds no True entry of an earlier chunk.
C25_NarrowedInvariant ==
    ChunkNarrowed =>
        LET top == ba.stack[2]
            T == TruePositions(top.pVariant)
        IN  /\ T = LatestChunk
            /\ T # {}
            /\ top.varStart = MinOf(T) - 1
            /\ top.varEnd - 1 = MaxOf(T) - 1
            /\ top.varTrueNum = Cardinality(T)

\* what holds of the narrowed selection: the bounds contain every True
\* entry, the start is tight, the count is the popcount
C25_NarrowedBounds ==
    ChunkNarrowed =>
        LET top == ba.stack[2]
            T == TruePositions(top.pVariant)
        IN  /\ T = LatestChunk
            /\ T # {}
            /\ top.varStart = MinOf(T) - 1
            /\ top.varEnd >= MaxOf(T)
            /\ top.varEnd <= Len(top.pVariant)
            /\ top.varTrueNum = Cardinality(T)

\* a short last chunk whose bound runs to the end of the axis
C25_LooseEnd ==
    /\ ChunkNarrowed
    /\ ba.stack[2].pVariant[Len(ba.stack[2].pVariant)] = FALSE
    /\ ba.stack[2].varEnd = Len(ba.stack[2].pVariant)
    /\ ba.stack[2].varTrueNum < ba.bsize

IsIncreasing(s) == \A k \in 1..(Len(s) - 1) : s[k] < s[k + 1]

\* every file has consumed each of its local records
AllConsumed ==
    \A j \in Files : pIdx[j] = Len(varidx[j]) /\ pI[j] = Len(varidx[j])

\* C26 as stated: for every nondecreasing varidx with values in 1..TotalNum,
\* when an allele, genotype or phase merge finishes, the cursor of every
\* file has consumed every local record of the file exactly once.
C26_AllConsumed ==
    (kind \in {"allele", "geno", "phase"} /\ status = "done"
        /\ \A j \in Files : IsNondecreasing(varidx[j])) => AllConsumed

\* C26, amended: the same for every varidx that is strictly increasing.
C26_AllConsumedIncreasing ==
    (kind \in {"allele", "geno", "phase"} /\ status = "done"
        /\ \A j \in Files : IsIncreasing(varidx[j])) => AllConsumed

\* a finished merge of two records, the first file holding both
C26_Witness ==
    /\ kind \in {"allele", "geno", "phase"}
    /\ status = "done"
    /\ varidx[1] = <<1, 2>>
    /\ Len(varidx[FileCnt]) = 1
    /\ AllConsumed

\* some file maps a local record to the global record g
MappedBy(g) == \E j \in Files : \E k \in 1..Len(varidx[j]) : varidx[j][k] = g

\* C27: in SEQ_MergeInfo the output of every global record that the varidx
\* of some file maps is a value a file contributed, not the absence
\* fallback, also when an earlier record was mapped by more than one file: a
\* file that lost a record to a file before it still contributes its later
\* records.
C27_MappedContributes ==
    [][ (kind = "info" /\ i' = i + 1 /\ MappedBy(i)) => hit' # NoFile ]_vars

\* a record mapped by the last file gets the fallback after the file lost
\* an earlier record
C27_LostRecord ==
    /\ kind = "info"
    /\ i = 3
    /\ varidx[1] = <<1>>
    /\ varidx[FileCnt] = <<1, 2>>
    /\ hit = NoFile
    /\ pIdx[FileCnt] = 0

\* the files whose cursor the loop of the current global record tests:
\* every file, and in SEQ_MergeInfo the files up to the first match
Tested(j) == kind = "info" => \A k \in 1..(j - 1) : ~EntryIs(k)

\* C28: throughout every merge the test of a file's cursor against the
\* current global record reads a position inside the varidx array of the
\* file: once the last local record of a file is consumed its cursor is not
\* dereferenced at or beyond the length of the array for the remaining
\* global records.
C28_ReadsInsideArray ==
    (kind \in {"allele", "geno", "phase", "info"} /\ status = "run")
        => \A j \in Files : Tested(j) => InArray(j)

\* the first file has consumed its only record and the loop tests its
\* cursor for the next global record
C28_PastTheEnd ==
    /\ kind = "allele"
    /\ status = "run"
    /\ i = 2
    /\ varidx[1] = <<1>>
    /\ pIdx[1] = Len(varidx[1])

\* C29: with verbose progress SEQ_MergeGeno and SEQ_MergePhase complete for
\* every TotalNum >= 1: the divisor TotalNum / 25 of the progress step is
\* not zero when the test `i % div' at the end of an iteration is evaluated,
\* and no iteration ends in the trap of a division by zero.
C29_ProgressDivisor ==
    [][ (kind \in {"geno", "phase"} /\ Verbose /\ status = "run")
            => /\ status' # "crash"
               /\ (i' = i + 1 => div # 0) ]_vars

\* a verbose merge stopped by the division at the end of its first record
C29_DivideByZero ==
    /\ kind \in {"geno", "phase"}
    /\ Verbose
    /\ TotalNum >= 1
    /\ div = 0
    /\ i = 1
    /\ status = "crash"


\* C30: list mode on an annotation/format column under any selection of the
\* samples, a strict subset included: element m of the result has exactly
\* (number of selected samples) x L[m] values, and every copy reads inside
\* the bulk read, the running offset plus the size of the element never
\* passing the number of values retrieved for the selected samples.
C30_FormatListMode ==
    (kind = "getformat" /\ gd.form = "list")
        => /\ gd.at = "done"
           /\ gd.pt <= Len(gd.val)
           /\ Len(gd.out) = Len(gd.I32)
           /\ \A m \in 1..Len(gd.out) :
                 Len(gd.out[m]) = SampleSelNum(gd.Sel) * gd.I32[m]

\* list mode with one of two samples selected: the element of the only
\* selected record takes two values where the bulk read holds one
C30_StrictSubset ==
    /\ kind = "getformat"
    /\ gd.form = "list"
    /\ gd.at = "done"
    /\ gd.Sel.pSample = <<TRUE, FALSE>>
    /\ gd.I32 = <<1>>
    /\ Len(gd.val) = 1
    /\ gd.pt = 2
    /\ gd.out = <<[x \in 1..2 |-> IF x = 1 THEN gd.val[1] ELSE Beyond]>>


\* the sample count of the caller is the number of samples of the files
RECURSIVE SamplesOf(_, _)
SamplesOf(n, j) == IF j = 0 THEN 0 ELSE n[j] + SamplesOf(n, j - 1)

\* C31: in SEQ_MergeGeno and SEQ_MergePhase the slots of the files written
\* for one global record fill the combined buffer, sized from the sample
\* count the caller supplies, exactly: the write offset after the last file
\* is the buffer size and no write lands at or beyond the end of the buffer,
\* for every set of source files.
C31_SlotsFillBuffer ==
    kind \in {"fillgeno", "fillphase"}
        => /\ ~gd.beyond
           /\ gd.at # "fault"
           /\ (gd.j > FileCnt => gd.off = gd.cnt)

\* two files of one sample each merged into a buffer sized for one sample:
\* the slot of the second file was written beyond the buffer
C31_Overrun ==
    /\ kind = "fillgeno"
    /\ gd.nsamp = 1
    /\ gd.ploidy = 1
    /\ gd.Num_Sample = [j \in Files |-> 1]
    /\ gd.nsamp # SamplesOf(gd.Num_Sample, FileCnt)
    /\ gd.at = "done"
    /\ gd.beyond
    /\ gd.off = FileCnt
    /\ gd.cnt = 1


\* the names with a descriptor in the cache
Cached(VarMap) == {n \in DOMAIN VarMap : VarMap[n].in}

\* C32: a failed resolution in VarGetStruct (invalid name or dimension
\* mismatch) adds no entry to the descriptor cache of the session: the cache
\* is as it was, and a later request for the name is resolved again and
\* fails or succeeds on the state the file then has.  A successful
\* resolution adds exactly one entry, and a repeated request for the name
\* returns the cached entry.
C32_FailureNotCached ==
    [][ (kind = "resolve" /\ gd'.File = gd.File)
          => LET name == gd'.last.name
                 res == gd'.last.result
             IN  /\ res \in {"ERR_NAME", "ERR_DIM"}
                       => /\ gd'.VarMap = gd.VarMap
                          /\ name \notin Cached(gd'.VarMap)
                 /\ (name \notin Cached(gd.VarMap) /\ name \in CheckedNodes)
                       => (res = "data" <=> Agrees(gd.File, name))
                 /\ (name \notin Cached(gd.VarMap) /\ res = "data")
                       => /\ Cached(gd'.VarMap) = Cached(gd.VarMap) \cup {name}
                          /\ \A n \in Cached(gd.VarMap) :
                                gd'.VarMap[n] = gd.VarMap[n]
                 /\ name \in Cached(gd.VarMap)
                       => /\ res = "data"
                          /\ Cached(gd'.VarMap) = Cached(gd.VarMap)
                          /\ gd'.VarMap[name]
                                = NodeLoad(gd.VarMap[name], gd.File)
                          /\ \A n \in Cached(gd.VarMap) \ {name} :
                                gd'.VarMap[n] = gd.VarMap[n] ]_vars

\* after a change of the file a request for a fixed-shape column failed on
\* its extent and left the cache, which holds another name, as it was
C32_Witness ==
    /\ kind = "resolve"
    /\ gd.File.gen = 1
    /\ gd.last.name = "position"
    /\ gd.last.result = "ERR_DIM"
    /\ Cached(gd.VarMap) = {"sample.id"}
====
